---- MODULE Spec2Model ----
(***************************************************************************)
(* pyspread: the grid model (GridTableModel over the CodeArray backend),   *)
(* the Grid event handlers and the Workflows that drive it.                *)
(*                                                                         *)
(* Keys are <<row, column, table>>.  The CodeArray backend (cell store,    *)
(* result caches, attribute log, shape) lives in model/model.py and        *)
(* lib/selection.py, which are not part of the source tree at hand; its    *)
(* operations are written here after the specification's sections 3 and 4. *)
(***************************************************************************)
EXTENDS Integers, Sequences, FiniteSets, TLC

VARIABLES
    shape,               \* code_array.shape: <<rows, columns, tables>>
    dict_grid,           \* code_array.dict_grid: key -> code
    result_cache,        \* code_array.result_cache: key -> result
    frozen_cache,        \* code_array.frozen_cache: key -> pinned result
    cell_attributes,     \* code_array.cell_attributes: the attribute log
    attr_cache,          \* cell_attributes._attr_cache: key -> attribute dict
    table_cache,         \* cell_attributes._table_cache: table -> entries
    macros,              \* code_array.macros
    globals,             \* names in the global execution namespace
    table,               \* grid.table (table_choice.currentIndex())
    changed_since_save,  \* settings.changed_since_save
    last_file_input_path,\* settings.last_file_input_path
    safe_mode,           \* main_window.safe_mode
    clipboard,           \* the cell attributes on the clipboard
    undo_resizing,       \* Grid.__undo_resizing_row, __undo_resizing_column
    loaded_from,         \* the kind of file the grid content stems from
    spans,               \* the spans of the table view: anchor -> size
    disk,                \* the save file and its signature file
    last                 \* the last call and what its caller received

caVars == <<shape, dict_grid, result_cache, frozen_cache, cell_attributes,
            attr_cache, table_cache, macros, globals>>
guiVars == <<table, changed_since_save, last_file_input_path, safe_mode>>
deskVars == <<clipboard, loaded_from, spans, disk, undo_resizing>>
vars == <<caVars, guiVars, deskVars, last>>

----------------------------------------------------------------------------
(* Bounds of the model *)

MaxCells == 1
MaxLog == 2
MaxMerges == 3

\* settings.maxshape: the configured ceiling of rows, columns, tables
maxshape == <<3, 2, 2>>

\* settings.shape: the shape the grid is constructed with
InitShape == <<2, 1, 1>>

None == "<None>"

\* tab=None of code_array.insert / delete: the edit is not scoped to a table
NoTab == -1

\* the codes typed into cells
Codes == {"1", "hi"}

----------------------------------------------------------------------------
(* Mappings (Python dicts) *)

EmptyMap == [x \in {} |-> x]

Put(f, k, v) == [x \in (DOMAIN f) \cup {k} |-> IF x = k THEN v ELSE f[x]]

Drop(f, k) == [x \in (DOMAIN f) \ {k} |-> f[x]]

RestrictTo(f, S) == [x \in (DOMAIN f) \cap S |-> f[x]]

Min(a, b) == IF a <= b THEN a ELSE b

Max(a, b) == IF a >= b THEN a ELSE b

Keys(shp) == (0 .. shp[1] - 1) \X (0 .. shp[2] - 1) \X (0 .. shp[3] - 1)

InShape(key, shp) == key \in Keys(shp)

----------------------------------------------------------------------------
(* The evaluator boundary: a value for the code (the stub of the          *)
(* specification's scenarios, the length of the code); an empty cell has   *)
(* no value                                                                *)

EvalCell(code) ==
    CASE code = None -> None
      [] code = "1" -> "1"
      [] code = "hi" -> "2"
      [] code = "hello" -> "5"
      [] code = "1/0" -> "ZeroDivisionError"
      [] code = "deep" -> "<deep>"
      [] code = "fig" -> "<Figure>"
      [] OTHER -> "0"

\* the results that are captured exceptions
Errors == {"ZeroDivisionError", "NameError"}

\* the macros typed into the macro editor, and the names they define
Macros == {"", "x = 7"}

MacroNames(code) == IF code = "x = 7" THEN {"x"} ELSE {}

\* CodeArray._eval_cell: the code is evaluated in the global namespace env;
\* an exception that the code raises is caught and is the result
EvalCellIn(env, code) ==
    IF code = "x" THEN (IF "x" \in env THEN "7" ELSE "NameError")
    ELSE EvalCell(code)

\* str(value): the message of an exception, the text of a value; it raises
\* RecursionError for a value that is nested too deeply
Str(value) ==
    CASE value = "ZeroDivisionError" -> "division by zero"
      [] value = "NameError" -> "name 'x' is not defined"
      [] value = "<deep>" -> "Raised"
      [] OTHER -> value

----------------------------------------------------------------------------
(* Selection: blocks (parallel lists of top-left and bottom-right          *)
(* corners), whole-row and whole-column index lists, single cells.         *)
(* Points are <<row, column>>.                                             *)

Selection(block_tl, block_br, rows, cols, cells) ==
    [block_tl |-> block_tl, block_br |-> block_br,
     rows |-> rows, cols |-> cols, cells |-> cells]

Range(s) == {s[i] : i \in DOMAIN s}

\* a point is in the selection if it falls in any block, is one of the
\* single cells, or its row / column index is in the index lists
Contains(sel, r, c) ==
    \/ \E i \in DOMAIN sel.block_tl :
          /\ sel.block_tl[i][1] <= r /\ r <= sel.block_br[i][1]
          /\ sel.block_tl[i][2] <= c /\ c <= sel.block_br[i][2]
    \/ <<r, c>> \in Range(sel.cells)
    \/ r \in Range(sel.rows)
    \/ c \in Range(sel.cols)

Blocks(sel) ==
    [i \in DOMAIN sel.block_tl |-> <<sel.block_tl[i], sel.block_br[i]>>]

FromBlocks(blocks, rows, cols, cells) ==
    Selection([i \in DOMAIN blocks |-> blocks[i][1]],
              [i \in DOMAIN blocks |-> blocks[i][2]], rows, cols, cells)

MapSeq(s, F(_)) == [i \in DOMAIN s |-> F(s[i])]

\* a coordinate at or after the insertion point moves by the count
InsertCoord(x, p, n) == IF x >= p THEN x + n ELSE x

InsertPoint(pt, p, n, axis) == [pt EXCEPT ![axis + 1] = InsertCoord(@, p, n)]

\* structural insert of n rows (axis 0) or columns (axis 1) at p: corners
\* before p stay, corners at or after p move, so a straddling block grows
SelectionInsert(sel, p, n, axis) ==
    Selection(MapSeq(sel.block_tl, LAMBDA pt : InsertPoint(pt, p, n, axis)),
              MapSeq(sel.block_br, LAMBDA pt : InsertPoint(pt, p, n, axis)),
              IF axis = 0 THEN MapSeq(sel.rows, LAMBDA x : InsertCoord(x, p, n))
                          ELSE sel.rows,
              IF axis = 1 THEN MapSeq(sel.cols, LAMBDA x : InsertCoord(x, p, n))
                          ELSE sel.cols,
              MapSeq(sel.cells, LAMBDA pt : InsertPoint(pt, p, n, axis)))

\* a top-left coordinate after n rows/columns at p are deleted
DeleteLow(x, p, n) == IF x >= p + n THEN x - n ELSE IF x >= p THEN p ELSE x

\* a bottom-right coordinate after n rows/columns at p are deleted
DeleteHigh(x, p, n) == IF x >= p + n THEN x - n ELSE IF x >= p THEN p - 1 ELSE x

Deleted(x, p, n) == p <= x /\ x < p + n

DeleteBlock(b, p, n, axis) ==
    <<[b[1] EXCEPT ![axis + 1] = DeleteLow(@, p, n)],
      [b[2] EXCEPT ![axis + 1] = DeleteHigh(@, p, n)]>>

\* structural delete of n rows (axis 0) or columns (axis 1) at p: what lies
\* in the deleted range goes, what lies after it moves back, a straddling
\* block is truncated
SelectionDelete(sel, p, n, axis) ==
    LET cut == MapSeq(Blocks(sel), LAMBDA b : DeleteBlock(b, p, n, axis))
        kept == SelectSeq(cut, LAMBDA b : b[1][axis + 1] <= b[2][axis + 1])
        cells == SelectSeq(sel.cells, LAMBDA pt : ~Deleted(pt[axis + 1], p, n))
        rows == SelectSeq(sel.rows, LAMBDA x : ~Deleted(x, p, n))
        cols == SelectSeq(sel.cols, LAMBDA x : ~Deleted(x, p, n))
    IN FromBlocks(kept,
           IF axis = 0 THEN MapSeq(rows, LAMBDA x : DeleteLow(x, p, n))
                       ELSE sel.rows,
           IF axis = 1 THEN MapSeq(cols, LAMBDA x : DeleteLow(x, p, n))
                       ELSE sel.cols,
           MapSeq(cells, LAMBDA pt : [pt EXCEPT ![axis + 1] = DeleteLow(@, p, n)]))

\* bool(selection): a selection without blocks, indices and cells is empty
IsEmpty(sel) ==
    /\ sel.block_tl = <<>> /\ sel.block_br = <<>>
    /\ sel.rows = <<>> /\ sel.cols = <<>> /\ sel.cells = <<>>

ShiftPoint(pt, rows, cols) == <<pt[1] + rows, pt[2] + cols>>

\* Selection.shifted(rows, cols): every block corner and every single cell
\* moves by the delta; coordinates below zero are not clipped
shifted(sel, rows, cols) ==
    Selection(MapSeq(sel.block_tl, LAMBDA pt : ShiftPoint(pt, rows, cols)),
              MapSeq(sel.block_br, LAMBDA pt : ShiftPoint(pt, rows, cols)),
              sel.rows, sel.cols,
              MapSeq(sel.cells, LAMBDA pt : ShiftPoint(pt, rows, cols)))

\* the rectangle two blocks share; its corners are crossed when they share
\* no cell
Overlap(a, b) ==
    <<<<Max(a[1][1], b[1][1]), Max(a[1][2], b[1][2])>>,
      <<Min(a[2][1], b[2][1]), Min(a[2][2], b[2][2])>>>>

NonEmptyBlock(b) == b[1][1] <= b[2][1] /\ b[1][2] <= b[2][2]

\* every combination of an element of s with an element of t
Pairs(s, t) ==
    [k \in 1 .. Len(s) * Len(t) |->
        <<s[((k - 1) \div Len(t)) + 1], t[((k - 1) % Len(t)) + 1]>>]

\* selection & other: every combination of blocks and cells is tested for
\* overlap; two blocks give the rectangle they share, a cell is kept when
\* the other selection contains it
intersect(a, b) ==
    LET over == SelectSeq(MapSeq(Pairs(Blocks(a), Blocks(b)),
                                 LAMBDA p : Overlap(p[1], p[2])),
                          NonEmptyBlock)
    IN FromBlocks(over,
                  SelectSeq(a.rows, LAMBDA x : x \in Range(b.rows)),
                  SelectSeq(a.cols, LAMBDA x : x \in Range(b.cols)),
                  SelectSeq(a.cells, LAMBDA pt : Contains(b, pt[1], pt[2])) \o
                  SelectSeq(b.cells, LAMBDA pt : /\ Contains(a, pt[1], pt[2])
                                                 /\ pt \notin Range(a.cells)))

\* the points of a shape, row by row
ShapePoints(shp) ==
    [k \in 1 .. shp[1] * shp[2] |-> <<(k - 1) \div shp[2], (k - 1) % shp[2]>>]

\* Selection.cell_generator(shape): the points of the shape that the
\* selection contains, each once
cell_generator(sel, shp) ==
    SelectSeq(ShapePoints(shp), LAMBDA pt : Contains(sel, pt[1], pt[2]))

\* Selection.get_grid_bbox(shape) of a selection of blocks and cells: the
\* least and the greatest row and column of its corners and cells
get_grid_bbox(sel, shp) ==
    LET pts == Range(sel.block_tl) \cup Range(sel.block_br) \cup Range(sel.cells)
        top == CHOOSE x \in {pt[1] : pt \in pts} : \A pt \in pts : x <= pt[1]
        left == CHOOSE x \in {pt[2] : pt \in pts} : \A pt \in pts : x <= pt[2]
        bottom == CHOOSE x \in {pt[1] : pt \in pts} : \A pt \in pts : x >= pt[1]
        right == CHOOSE x \in {pt[2] : pt \in pts} : \A pt \in pts : x >= pt[2]
    IN <<<<top, left>>, <<bottom, right>>>>

----------------------------------------------------------------------------
(* CellAttributes: the log of <<selection, table, attribute diff>> and its *)
(* two caches                                                              *)

AttrNames ==
    {"bgcolor", "textcolor", "underline", "frozen", "renderer", "merge_area",
     "locked"}

\* merge_area of a cell that merges no cells (None)
NoArea == <<>>

DefaultCellAttributes ==
    [a \in AttrNames |->
        CASE a = "bgcolor" -> None
          [] a = "textcolor" -> None
          [] a = "underline" -> FALSE
          [] a = "frozen" -> FALSE
          [] a = "renderer" -> "text"
          [] a = "merge_area" -> NoArea
          [] a = "locked" -> FALSE]

Diff1(a, v) == [x \in {a} |-> v]

Diff2(a, v, b, w) == [x \in {a, b} |-> IF x = a THEN v ELSE w]

\* dict.update
Update(dict, diff) ==
    [a \in DOMAIN dict |-> IF a \in DOMAIN diff THEN diff[a] ELSE dict[a]]

\* the entries logged for a table, in the order logged
ForTable(log, tab) == SelectSeq(log, LAMBDA e : e[2] = tab)

RECURSIVE MergeFrom(_, _, _, _, _)
MergeFrom(entries, r, c, i, acc) ==
    IF i > Len(entries) THEN acc
    ELSE MergeFrom(entries, r, c, i + 1,
                   IF Contains(entries[i][1], r, c)
                   THEN Update(acc, entries[i][3]) ELSE acc)

\* the scan of the log: the diffs of the entries of the key's table whose
\* selection contains the key, merged over the defaults in log order
Effective(log, key) ==
    MergeFrom(ForTable(log, key[3]), key[1], key[2], 1, DefaultCellAttributes)

\* cell_attributes[key]: the point query with its two memos
GetItemAttr(log, acache, tcache, key) ==
    IF key \in DOMAIN acache
    THEN [value |-> acache[key], attr_cache |-> acache, table_cache |-> tcache]
    ELSE LET tc == IF key[3] \in DOMAIN tcache THEN tcache
                   ELSE Put(tcache, key[3], ForTable(log, key[3]))
             res == MergeFrom(tc[key[3]], key[1], key[2], 1,
                              DefaultCellAttributes)
         IN [value |-> res, attr_cache |-> Put(acache, key, res),
             table_cache |-> tc]

\* get_merging_cell finds no merging cell (None)
NoKey == <<>>

AreaContains(area, r, c) ==
    /\ area # NoArea
    /\ area[1] <= r /\ r <= area[3]
    /\ area[2] <= c /\ c <= area[4]

\* the entries of a table that merge cells, in the order logged
MergeEntries(log, tab) ==
    SelectSeq(ForTable(log, tab),
              LAMBDA e : "merge_area" \in DOMAIN e[3] /\ e[3]["merge_area"] # NoArea)

\* cell_attributes.get_merging_cell(key): the top left cell of the merge
\* area that holds the key, for the first logged anchor whose merge area
\* still is in effect
get_merging_cell(log, key) ==
    LET hits == SelectSeq(MergeEntries(log, key[3]), LAMBDA e :
                    AreaContains(
                        Effective(log, <<e[3]["merge_area"][1],
                                         e[3]["merge_area"][2], key[3]>>)["merge_area"],
                        key[1], key[2]))
    IN IF hits = <<>> THEN NoKey
       ELSE <<hits[1][3]["merge_area"][1], hits[1][3]["merge_area"][2], key[3]>>

----------------------------------------------------------------------------
(* CodeArray: the cell store, the result caches, the attribute log and the *)
(* shape, as one value                                                     *)

CA ==
    [shape |-> shape, dict_grid |-> dict_grid, result_cache |-> result_cache,
     frozen_cache |-> frozen_cache, cell_attributes |-> cell_attributes,
     attr_cache |-> attr_cache, table_cache |-> table_cache,
     macros |-> macros, globals |-> globals]

SetCA(ca) ==
    /\ shape' = ca.shape
    /\ dict_grid' = ca.dict_grid
    /\ result_cache' = ca.result_cache
    /\ frozen_cache' = ca.frozen_cache
    /\ cell_attributes' = ca.cell_attributes
    /\ attr_cache' = ca.attr_cache
    /\ table_cache' = ca.table_cache
    /\ macros' = ca.macros
    /\ globals' = ca.globals

\* code_array(key): the code of the cell, None if the cell is empty
CodeArrayCall(ca, key) ==
    IF key \in DOMAIN ca.dict_grid THEN ca.dict_grid[key] ELSE None

\* code_array[key] = code: the result cached for the key is invalidated
CodeArraySetItem(ca, key, code) ==
    [ca EXCEPT !.dict_grid = Put(@, key, code),
               !.result_cache = Drop(@, key)]

\* code_array.pop(key): removes the key; KeyError if the key is absent
CodeArrayPop(ca, key) ==
    IF key \in DOMAIN ca.dict_grid
    THEN [ca |-> [ca EXCEPT !.dict_grid = Drop(@, key),
                            !.result_cache = Drop(@, key)],
          raised |-> FALSE]
    ELSE [ca |-> ca, raised |-> TRUE]

\* code_array[key]: a frozen cell reads its pinned result; otherwise the
\* cached result, or the evaluation of the code, which is then cached
\* code that refers to another cell, and the cell it refers to
RefCode == "S[0,0,0]"

RefKey == <<0, 0, 0>>

\* how deep the evaluation of a cell may ask for other cells
RecursionLimit == 2

\* the result of a cell, asked for at a depth of the evaluation: the frozen
\* cache for a frozen cell, else the result cache, else the evaluation of
\* the code, which is cached; code that refers to a cell asks for that
\* cell's result in the same way, and too deep a recursion is an error
\* that is captured as the result
RECURSIVE Resolve(_, _, _)
Resolve(ca, key, depth) ==
    LET q == GetItemAttr(ca.cell_attributes, ca.attr_cache, ca.table_cache, key)
        ca1 == [ca EXCEPT !.attr_cache = q.attr_cache,
                          !.table_cache = q.table_cache]
        code == CodeArrayCall(ca, key)
    IN IF q.value["frozen"]
       THEN [value |-> IF key \in DOMAIN ca.frozen_cache
                       THEN ca.frozen_cache[key] ELSE None,
             ca |-> ca1, evaluated |-> FALSE]
       ELSE IF key \in DOMAIN ca.result_cache
       THEN [value |-> ca.result_cache[key], ca |-> ca1, evaluated |-> FALSE]
       ELSE IF code = RefCode
       THEN LET r == IF depth = 0
                     THEN [value |-> "RecursionError", ca |-> ca1]
                     ELSE Resolve(ca1, RefKey, depth - 1)
            IN [value |-> r.value,
                ca |-> [r.ca EXCEPT !.result_cache = Put(@, key, r.value)],
                evaluated |-> TRUE]
       ELSE IF code # None
       THEN [value |-> EvalCellIn(ca.globals, code),
             ca |-> [ca1 EXCEPT !.result_cache =
                                   Put(@, key, EvalCellIn(ca.globals, code))],
             evaluated |-> TRUE]
       ELSE [value |-> None, ca |-> ca1, evaluated |-> FALSE]

CodeArrayGetItem(ca, key) == Resolve(ca, key, RecursionLimit)

\* the characters of the texts that are searched and searched for
Chars(text) ==
    CASE text = "hi" -> <<"h", "i">>
      [] text = "Hi" -> <<"H", "i">>
      [] text = "high" -> <<"h", "i", "g", "h">>
      [] text = "h." -> <<"h", ".">>
      [] text = "0" -> <<"0">>
      [] text = "1" -> <<"1">>
      [] text = "2" -> <<"2">>
      [] text = "1gh" -> <<"1", "g", "h">>
      [] text = " hi " -> <<" ", "h", "i", " ">>
      [] text = "'hi'" -> <<"'", "h", "i", "'">>
      [] text = "\"hi\"" -> <<"\"", "h", "i", "\"">>
      [] text = "u'hi'" -> <<"u", "'", "h", "i", "'">>
      [] text = "u\"hi\"" -> <<"u", "\"", "h", "i", "\"">>
      [] text = "\"u'hi'\"" -> <<"\"", "u", "'", "h", "i", "'", "\"">>
      [] text = "'u\"hi\"'" -> <<"'", "u", "\"", "h", "i", "\"", "'">>
      [] text = "it's" -> <<"i", "t", "'", "s">>
      [] text = "\"it's\"" -> <<"\"", "i", "t", "'", "s", "\"">>
      [] text = "'\"" -> <<"'", "\"">>
      [] text = "'\\'\"'" -> <<"'", "\\", "'", "\"", "'">>
      [] text = "'1'" -> <<"'", "1", "'">>
      [] text = " " -> <<" ">>
      [] OTHER -> <<>>

\* str.lower of a character
Lower(ch) == IF ch = "H" THEN "h" ELSE ch

\* the pattern is found in the data at a position; in a regular expression
\* the dot stands for any character
MatchAt(data, pat, pos, regexp) ==
    /\ pos + Len(pat) - 1 <= Len(data)
    /\ \A j \in DOMAIN pat :
          \/ pat[j] = data[pos + j - 1]
          \/ regexp /\ pat[j] = "."

\* a match at a position is a whole word: no character of a word before it
\* and none after it
WholeWord(data, pat, pos) ==
    /\ pos = 1 \/ data[pos - 1] = " "
    /\ pos + Len(pat) - 1 = Len(data) \/ data[pos + Len(pat)] = " "

\* the match of a find string in a text: a regular expression is searched
\* as it is; a string is searched in lower case unless the case matters, and
\* as a whole word if asked for
string_match(datastring, findstring, word, case, regexp) ==
    LET fold == ~regexp /\ ~case
        data == [i \in DOMAIN Chars(datastring) |->
                    IF fold THEN Lower(Chars(datastring)[i])
                    ELSE Chars(datastring)[i]]
        pat == [i \in DOMAIN Chars(findstring) |->
                   IF fold THEN Lower(Chars(findstring)[i])
                   ELSE Chars(findstring)[i]]
    IN \E pos \in DOMAIN data :
          /\ MatchAt(data, pat, pos, regexp)
          /\ (word /\ ~regexp) => WholeWord(data, pat, pos)

\* the order of the scan: by table, then by row, then by column
KeyLess(a, b) ==
    \/ a[3] < b[3]
    \/ a[3] = b[3] /\ a[1] < b[1]
    \/ a[3] = b[3] /\ a[1] = b[1] /\ a[2] < b[2]

\* the keys of a shape in the order of the scan
KeysInOrder(shp) ==
    [k \in 1 .. shp[1] * shp[2] * shp[3] |->
        <<((k - 1) \div shp[2]) % shp[1], (k - 1) % shp[2],
          (k - 1) \div (shp[1] * shp[2])>>]

Reverse(seq) == [i \in DOMAIN seq |-> seq[Len(seq) + 1 - i]]

\* the occupied keys in the order they are searched: from the start key on
\* in the direction of the search, then the keys on the other side of it
SearchKeys(ca, startkey, up) ==
    LET occupied == SelectSeq(KeysInOrder(ca.shape),
                              LAMBDA k : k \in DOMAIN ca.dict_grid)
        before == SelectSeq(occupied, LAMBDA k : KeyLess(k, startkey))
        after == SelectSeq(occupied, LAMBDA k : KeyLess(startkey, k))
        at == SelectSeq(occupied, LAMBDA k : k = startkey)
    IN IF up THEN Reverse(before \o at) \o Reverse(after)
       ELSE at \o after \o before

\* the scan of findnextmatch from the i-th key on: the first key whose code,
\* or whose result as a string, matches; a result that is looked at is
\* cached
RECURSIVE FindFrom(_, _, _, _, _, _, _, _)
FindFrom(ca, keys, i, find_string, word, case, regexp, results) ==
    IF i > Len(keys) THEN [ca |-> ca, key |-> NoKey]
    ELSE LET r == CodeArrayGetItem(ca, keys[i])
             text == IF results THEN Str(r.value) ELSE CodeArrayCall(ca, keys[i])
             seen == IF results THEN r.ca ELSE ca
         IN IF string_match(text, find_string, word, case, regexp)
            THEN [ca |-> seen, key |-> keys[i]]
            ELSE FindFrom(seen, keys, i + 1, find_string, word, case, regexp,
                          results)

\* code_array.findnextmatch(startkey, find_string, up, word, case, regexp,
\* results)
findnextmatch(ca, startkey, find_string, up, word, case, regexp, results) ==
    FindFrom(ca, SearchKeys(ca, startkey, up), 1, find_string, word, case,
             regexp, results)

\* the evaluation cache's invalidate(coord): the cached result of the key is
\* dropped, if there is one
Invalidate(ca, key) == [ca EXCEPT !.result_cache = Drop(@, key)]

\* the macros are set and executed: the global namespace holds the names they
\* define, the result cache is cleared
ExecuteMacros(ca, code) ==
    [ca EXCEPT !.macros = code,
               !.globals = MacroNames(code),
               !.result_cache = EmptyMap]

\* a key that a structural edit at p along axis, scoped to tab, touches
Affected(key, p, axis, tab) ==
    key[axis + 1] >= p /\ (tab = NoTab \/ key[3] = tab)

\* the keys of a mapping after n rows / columns / tables are inserted at p
InsertKeys(f, p, n, axis, tab) ==
    LET moved == {k \in DOMAIN f : Affected(k, p, axis, tab)}
        Old(k) == [k EXCEPT ![axis + 1] = @ - n]
        New(k) == [k EXCEPT ![axis + 1] = @ + n]
    IN [k \in ((DOMAIN f) \ moved) \cup {New(m) : m \in moved} |->
           IF Old(k) \in moved THEN f[Old(k)] ELSE f[k]]

\* the keys of a mapping after n rows / columns / tables are deleted at p
DeleteKeys(f, p, n, axis, tab) ==
    LET touched == {k \in DOMAIN f : Affected(k, p, axis, tab)}
        moved == {k \in touched : k[axis + 1] >= p + n}
        Old(k) == [k EXCEPT ![axis + 1] = @ + n]
        New(k) == [k EXCEPT ![axis + 1] = @ - n]
    IN [k \in ((DOMAIN f) \ touched) \cup {New(m) : m \in moved} |->
           IF Old(k) \in moved THEN f[Old(k)] ELSE f[k]]

\* the attribute log after an insert: row / column inserts adjust the
\* selections of the table's entries, table inserts renumber the entries
AttrsInsert(log, p, n, axis, tab) ==
    IF axis = 2
    THEN MapSeq(log, LAMBDA e : IF e[2] >= p THEN <<e[1], e[2] + n, e[3]>> ELSE e)
    ELSE MapSeq(log, LAMBDA e :
                  IF tab = NoTab \/ e[2] = tab
                  THEN <<SelectionInsert(e[1], p, n, axis), e[2], e[3]>> ELSE e)

\* the attribute log after a delete
AttrsDelete(log, p, n, axis, tab) ==
    IF axis = 2
    THEN MapSeq(SelectSeq(log, LAMBDA e : ~Deleted(e[2], p, n)),
                LAMBDA e : IF e[2] >= p + n THEN <<e[1], e[2] - n, e[3]>> ELSE e)
    ELSE MapSeq(log, LAMBDA e :
                  IF tab = NoTab \/ e[2] = tab
                  THEN <<SelectionDelete(e[1], p, n, axis), e[2], e[3]>> ELSE e)

InsertRejected(ca, p, n, axis) ==
    \/ p < 0 \/ p > ca.shape[axis + 1] \/ n < 1
    \/ ca.shape[axis + 1] + n > maxshape[axis + 1]

\* code_array.insert(p, n, axis, tab): validate, then shift the store, clear
\* the result cache, move the pinned results, shift the attribute log and
\* grow the shape
CodeArrayInsert(ca, p, n, axis, tab) ==
    IF InsertRejected(ca, p, n, axis)
    THEN [ca |-> ca, raised |-> TRUE]
    ELSE [ca |-> [ca EXCEPT
                    !.dict_grid = InsertKeys(@, p, n, axis, tab),
                    !.result_cache = EmptyMap,
                    !.frozen_cache = InsertKeys(@, p, n, axis, tab),
                    !.cell_attributes = AttrsInsert(@, p, n, axis, tab),
                    !.attr_cache = EmptyMap,
                    !.table_cache = EmptyMap,
                    !.shape = [@ EXCEPT ![axis + 1] = @ + n]],
          raised |-> FALSE]

DeleteRejected(ca, p, n, axis) ==
    \/ p < 0 \/ n < 1 \/ p + n > ca.shape[axis + 1]
    \/ n >= ca.shape[axis + 1]

\* code_array.delete(p, n, axis, tab): ValueError when nothing would be left
CodeArrayDelete(ca, p, n, axis, tab) ==
    IF DeleteRejected(ca, p, n, axis)
    THEN [ca |-> ca, raised |-> TRUE]
    ELSE [ca |-> [ca EXCEPT
                    !.dict_grid = DeleteKeys(@, p, n, axis, tab),
                    !.result_cache = EmptyMap,
                    !.frozen_cache = DeleteKeys(@, p, n, axis, tab),
                    !.cell_attributes = AttrsDelete(@, p, n, axis, tab),
                    !.attr_cache = EmptyMap,
                    !.table_cache = EmptyMap,
                    !.shape = [@ EXCEPT ![axis + 1] = @ - n]],
          raised |-> FALSE]

\* a selection cut to the rows and columns of a shape
SelectionClip(sel, shp) ==
    LET cut == MapSeq(Blocks(sel), LAMBDA b :
                  <<b[1], <<Min(b[2][1], shp[1] - 1), Min(b[2][2], shp[2] - 1)>>>>)
        kept == SelectSeq(cut, LAMBDA b : b[1][1] <= b[2][1] /\ b[1][2] <= b[2][2])
    IN FromBlocks(kept,
                  SelectSeq(sel.rows, LAMBDA x : x < shp[1]),
                  SelectSeq(sel.cols, LAMBDA x : x < shp[2]),
                  SelectSeq(sel.cells, LAMBDA pt : pt[1] < shp[1] /\ pt[2] < shp[2]))

\* code_array.shape = value: what lies outside the new shape is removed,
\* the caches are cleared
CodeArraySetShape(ca, value) ==
    [ca EXCEPT
       !.shape = value,
       !.dict_grid = RestrictTo(@, Keys(value)),
       !.result_cache = EmptyMap,
       !.frozen_cache = RestrictTo(@, Keys(value)),
       !.cell_attributes =
           MapSeq(SelectSeq(@, LAMBDA e : e[2] < value[3]),
                  LAMBDA e : <<SelectionClip(e[1], value), e[2], e[3]>>),
       !.attr_cache = EmptyMap,
       !.table_cache = EmptyMap]

\* cell_attributes.append(value): the entry is logged, both caches are
\* invalidated
CellAttributesAppend(ca, value) ==
    [ca EXCEPT !.cell_attributes = Append(@, value),
               !.attr_cache = EmptyMap,
               !.table_cache = EmptyMap]

\* the cell whose frozen state a command sets
SingleCell(key) == Selection(<<>>, <<>>, <<>>, <<>>, <<<<key[1], key[2]>>>>)

\* commands.FreezeCell: the result of the cell is pinned, the cell is marked
\* frozen by a log entry
FreezeCell(ca, key) ==
    CellAttributesAppend(
        [ca EXCEPT !.frozen_cache =
                      Put(@, key, EvalCellIn(ca.globals, CodeArrayCall(ca, key)))],
        <<SingleCell(key), key[3], Diff1("frozen", TRUE)>>)

\* commands.ThawCell: the pinned result is dropped, the cell is marked not
\* frozen by a log entry
ThawCell(ca, key) ==
    CellAttributesAppend(
        [ca EXCEPT !.frozen_cache = Drop(@, key)],
        <<SingleCell(key), key[3], Diff1("frozen", FALSE)>>)

PointsOf(sel) == Range(sel.block_tl) \cup Range(sel.block_br) \cup Range(sel.cells)

\* the rows and columns of a selection lie inside a shape
SelInShape(sel, shp) ==
    /\ \A pt \in PointsOf(sel) : pt[1] < shp[1] /\ pt[2] < shp[2]
    /\ \A x \in Range(sel.rows) : x < shp[1]
    /\ \A x \in Range(sel.cols) : x < shp[2]

\* Row and column edits are scoped to one table while the shape is shared by
\* all tables, so what other tables hold may come to lie outside the shape.
\* The model follows the backend as long as everything stored lies inside
\* the maximum shape.
InMaxShape(ca) ==
    /\ DOMAIN ca.dict_grid \subseteq Keys(maxshape)
    /\ DOMAIN ca.frozen_cache \subseteq Keys(maxshape)
    /\ \A i \in DOMAIN ca.cell_attributes :
          /\ SelInShape(ca.cell_attributes[i][1], maxshape)
          /\ ca.cell_attributes[i][2] < maxshape[3]

----------------------------------------------------------------------------
(* GridTableModel: the calls of the grid layer into the backend.  Each     *)
(* yields the backend after the call and what the caller receives:         *)
(* "True", "False", "None", or "Raised" when an exception escapes.         *)

\* variants of the calls below, each with one plausible slip
insertRowsAsColumns(ca, tab, row, count) ==
    LET r == CodeArrayInsert(ca, row, count, 1, tab)
    IN [ca |-> r.ca, result |-> IF r.raised THEN "Raised" ELSE "True"]

insertRowsBelow(ca, tab, row, count) ==
    LET r == CodeArrayInsert(ca, row + 1, count, 0, tab)
    IN [ca |-> r.ca, result |-> IF r.raised THEN "Raised" ELSE "True"]

removeRowsKeepsAttributes(ca, tab, row, count) ==
    LET r == CodeArrayDelete(ca, row, count, 0, tab)
    IN [ca |-> [r.ca EXCEPT !.cell_attributes = ca.cell_attributes],
        result |-> IF r.raised THEN "False" ELSE "True"]

removeRowsAlwaysTrue(ca, tab, row, count) ==
    [ca |-> CodeArrayDelete(ca, row, count, 0, tab).ca, result |-> "True"]

removeRowsAtTop(ca, tab, row, count) ==
    LET r == CodeArrayDelete(ca, 0, count, 0, tab)
    IN [ca |-> r.ca, result |-> IF r.raised THEN "False" ELSE "True"]

insertColumnsUnchecked(ca, tab, column, count) ==
    LET r == CodeArrayInsert(ca, column, count, 1, tab)
    IN [ca |-> IF r.raised
               THEN [ca EXCEPT !.shape = [@ EXCEPT ![2] = @ + count]]
               ELSE r.ca,
        result |-> "True"]

removeColumnsEveryTable(ca, tab, column, count) ==
    LET r == CodeArrayDelete(ca, column, count, 1, NoTab)
    IN [ca |-> r.ca, result |-> IF r.raised THEN "False" ELSE "True"]

setDataAttrPrepend(ca, value) ==
    [ca EXCEPT !.cell_attributes = <<value>> \o @,
               !.attr_cache = EmptyMap,
               !.table_cache = EmptyMap]

\* GridTableModel.insertRows
insertRows(ca, tab, row, count) ==
    LET r == CodeArrayInsert(ca, row, count, 0, tab)
    IN [ca |-> r.ca, result |-> IF r.raised THEN "Raised" ELSE "True"]

\* GridTableModel.removeRows: a ValueError of the backend becomes False
removeRows(ca, tab, row, count) ==
    LET r == CodeArrayDelete(ca, row, count, 0, tab)
    IN [ca |-> r.ca, result |-> IF r.raised THEN "False" ELSE "True"]

\* GridTableModel.insertColumns
insertColumns(ca, tab, column, count) ==
    LET r == CodeArrayInsert(ca, column, count, 1, tab)
    IN [ca |-> r.ca, result |-> IF r.raised THEN "Raised" ELSE "True"]

\* GridTableModel.removeColumns
removeColumns(ca, tab, column, count) ==
    LET r == CodeArrayDelete(ca, column, count, 1, tab)
    IN [ca |-> r.ca, result |-> IF r.raised THEN "False" ELSE "True"]

\* GridTableModel.insertTable
insertTable(ca, tab, count) ==
    LET r == CodeArrayInsert(ca, tab, count, 2, NoTab)
    IN [ca |-> r.ca, result |-> IF r.raised THEN "Raised" ELSE "None"]

\* GridTableModel.removeTable
removeTable(ca, tab, count) ==
    LET r == CodeArrayDelete(ca, tab, count, 2, NoTab)
    IN [ca |-> r.ca, result |-> IF r.raised THEN "Raised" ELSE "None"]

\* "{}".format(value)
Format(value) == IF value = None THEN "None" ELSE value

\* variants of setData with one plausible slip each
setDataEditKeepsResult(ca, key, value, raw) ==
    IF raw /\ value = None THEN CodeArrayPop(ca, key).ca
    ELSE [ca EXCEPT !.dict_grid = Put(@, key, IF raw THEN value ELSE Format(value))]

setDataEditEmptiesCell(ca, key, value, raw) ==
    IF raw THEN CodeArraySetItem(ca, key, IF value = None THEN "" ELSE value)
    ELSE CodeArraySetItem(ca, key, Format(value))

setDataEditStoresNone(ca, key, value, raw) ==
    IF raw THEN CodeArraySetItem(ca, key, value)
    ELSE CodeArraySetItem(ca, key, Format(value))

\* GridTableModel.setData with Qt.EditRole
setDataEdit(ca, key, value, raw) ==
    IF raw
    THEN IF value = None THEN CodeArrayPop(ca, key).ca
         ELSE CodeArraySetItem(ca, key, value)
    ELSE CodeArraySetItem(ca, key, Format(value))

\* GridTableModel.setData with Qt.DecorationRole or Qt.TextAlignmentRole
setDataAttr(ca, value) == CellAttributesAppend(ca, value)

\* GridTableModel.reset: cells, attribute log, macros, result cache, globals
reset(ca) ==
    [ca EXCEPT !.dict_grid = EmptyMap,
               !.cell_attributes = <<>>,
               !.macros = "",
               !.result_cache = EmptyMap,
               !.globals = {}]

setShapeOnlyBounds(ca, value) == [ca EXCEPT !.shape = value]

\* GridTableModel.shape (setter)
setShape(ca, value) == CodeArraySetShape(ca, value)

safe_strUnguarded(value) == Str(value)

\* safe_str in GridTableModel.data: str(value), on RecursionError the message
\* of the error
safe_str(value) ==
    IF Str(value) = "Raised" THEN "maximum recursion depth exceeded"
    ELSE Str(value)

\* GridTableModel.code: the code of the cell
code(ca, key) == CodeArrayCall(ca, key)

dataDisplayEvaluates(ca, key) ==
    LET value == EvalCellIn(ca.globals, CodeArrayCall(ca, key))
    IN [ca |-> ca, result |-> IF value = None THEN "" ELSE safe_str(value),
        evaluated |-> value # None]

\* GridTableModel.data with Qt.DisplayRole
dataDisplay(ca, key) ==
    LET v == CodeArrayGetItem(ca, key)
        q == GetItemAttr(v.ca.cell_attributes, v.ca.attr_cache,
                         v.ca.table_cache, key)
    IN [ca |-> [v.ca EXCEPT !.attr_cache = q.attr_cache,
                            !.table_cache = q.table_cache],
        result |-> IF q.value["renderer"] = "image" \/ v.value = None
                   THEN "" ELSE safe_str(v.value),
        evaluated |-> v.evaluated]

\* variants of data with one plausible slip each
dataToolTipEvaluates(ca, key) ==
    LET value == EvalCellIn(ca.globals, CodeArrayCall(ca, key))
    IN [ca |-> IF value = None THEN ca
               ELSE [ca EXCEPT !.result_cache = Put(@, key, value)],
        result |-> IF value = None THEN "" ELSE safe_str(value),
        evaluated |-> value # None]

dataToolTipNoStore(ca, key) ==
    LET v == CodeArrayGetItem(ca, key)
    IN [ca |-> [v.ca EXCEPT !.result_cache = ca.result_cache],
        result |-> IF v.value = None THEN "" ELSE safe_str(v.value),
        evaluated |-> v.evaluated]

\* GridTableModel.data with Qt.ToolTipRole; evaluated tells whether the read
\* made the backend evaluate the code
dataToolTip(ca, key) ==
    LET v == CodeArrayGetItem(ca, key)
    IN [ca |-> v.ca, result |-> IF v.value = None THEN "" ELSE safe_str(v.value),
        evaluated |-> v.evaluated]

\* GridTableModel.data with Qt.TextColorRole
dataTextColor(ca, key) ==
    LET q == GetItemAttr(ca.cell_attributes, ca.attr_cache, ca.table_cache, key)
    IN [ca |-> [ca EXCEPT !.attr_cache = q.attr_cache,
                          !.table_cache = q.table_cache],
        result |-> IF q.value["textcolor"] = None THEN "palette"
                   ELSE q.value["textcolor"]]

\* ChartDialog.apply: the code of the dialog's editor is evaluated for the
\* current cell; a figure is drawn, an exception or any other value is
\* reported in the message pane
apply(ca, value) ==
    LET figure == EvalCellIn(ca.globals, value)
    IN IF figure = "<Figure>" THEN [pane |-> "canvas", text |-> ""]
       ELSE IF figure \in Errors
       THEN [pane |-> "message", text |-> Str(figure)]
       ELSE [pane |-> "message", text |-> "is no instance of Figure"]

\* commands.SetGridSize: the command sets the shape of the model
SetGridSize(ca, value) == setShape(ca, value)

\* GridShapeDialog.shape when the dialog is canceled or a field holds no
\* number (None)
NoShape == <<>>

GridShapeErrorNoMaximum(shp) ==
    IF \E i \in 1 .. 3 : shp[i] = 0 THEN "Invalid grid shape" ELSE None

\* Workflows.file_new and Workflows.edit_resize: the shape the dialog
\* returns is refused with a message when an axis is 0 or exceeds the maximum
GridShapeError(shp) ==
    IF \E i \in 1 .. 3 : shp[i] = 0 THEN "Invalid grid shape"
    ELSE IF \E i \in 1 .. 3 : shp[i] > maxshape[i] THEN "Grid shape exceeds"
    ELSE None

\* Grid.update_cell_spans, the scan of the log: an entry of the current
\* table that merges cells gives its top left cell the span to the bottom
\* right cell, an entry that unmerges takes the span from the top left cell
\* of the selection
RECURSIVE SpansFrom(_, _, _, _, _)
SpansFrom(log, tab, tl, i, acc) ==
    IF i > Len(log) THEN acc
    ELSE SpansFrom(log, tab, tl, i + 1,
            IF log[i][2] = tab /\ "merge_area" \in DOMAIN log[i][3]
            THEN LET area == log[i][3]["merge_area"]
                 IN IF area = NoArea THEN Put(acc, tl, NoArea)
                    ELSE Put(acc, <<area[1], area[2]>>, <<area[3], area[4]>>)
            ELSE acc)

\* Grid.update_cell_spans: the spans are cleared and set anew; the top left
\* cell maps to <<rows, columns>> it spans
update_cell_spans(log, tab, tl) ==
    LET found == SpansFrom(log, tab, tl, 1, EmptyMap)
    IN [k \in {x \in DOMAIN found : found[x] # NoArea} |->
           <<found[k][1] - k[1] + 1, found[k][2] - k[2] + 1>>]

\* columnSpan(row, column) > 1 or rowSpan(row, column) > 1: the cell lies
\* in a span of more than one cell
Spanned(sp, row, column) ==
    \E k \in DOMAIN sp :
       /\ k[1] <= row /\ row < k[1] + sp[k][1]
       /\ k[2] <= column /\ column < k[2] + sp[k][2]
       /\ (sp[k][1] > 1 \/ sp[k][2] > 1)

MergeAttrAtBottomRight(sel, tab, sp, shp) ==
    LET bbox == get_grid_bbox(sel, shp)
        top == bbox[1][1]
        left == bbox[1][2]
        bottom == bbox[2][1]
        right == bbox[2][2]
    IN IF Spanned(sp, top, left)
       THEN <<<<SingleCell(<<bottom, right>>), tab, Diff1("merge_area", NoArea)>>>>
       ELSE IF bottom > top \/ right > left
       THEN <<<<SingleCell(<<bottom, right>>), tab,
                Diff1("merge_area", <<top, left, bottom, right>>)>>>>
       ELSE <<>>

\* Grid.on_merge_pressed, the attribute the command is made with: the top
\* left cell of the selection's bounding box is unmerged when it is spanned,
\* else it merges the bounding box when that is more than one cell; no
\* command otherwise
MergeAttr(sel, tab, sp, shp) ==
    LET bbox == get_grid_bbox(sel, shp)
        top == bbox[1][1]
        left == bbox[1][2]
        bottom == bbox[2][1]
        right == bbox[2][2]
    IN IF Spanned(sp, top, left)
       THEN <<<<SingleCell(<<top, left>>), tab, Diff1("merge_area", NoArea)>>>>
       ELSE IF bottom > top \/ right > left
       THEN <<<<SingleCell(<<top, left>>), tab,
                Diff1("merge_area", <<top, left, bottom, right>>)>>>>
       ELSE <<>>

----------------------------------------------------------------------------
(* What the user does: the cells looked at and navigated to, the           *)
(* selections made, the formats applied, the shapes typed into the dialog  *)

\* <<row, column>> of the cells that are edited
EditCells == {<<0, 0>>, <<1, 0>>}

\* <<row, column>> of the cells that are displayed and that the cursor visits
ViewCells == {<<0, 0>>}

\* grid.selection: a single cell, or a block of two rows
GridSelections ==
    {Selection(<<>>, <<>>, <<>>, <<>>, <<<<1, 0>>>>),
     Selection(<<<<0, 0>>>>, <<<<1, 0>>>>, <<>>, <<>>, <<>>)}

\* the attribute diffs of the format commands
Diffs == {Diff2("bgcolor", "red", "underline", TRUE),
          Diff2("bgcolor", "blue", "textcolor", "green")}

\* the fields of GridShapeDialog hold integers from 0 on
DialogShapes ==
    {NoShape} \cup ((0 .. maxshape[1] + 1) \X (0 .. maxshape[2] + 1)
                    \X (0 .. maxshape[3] + 1))

Call(op, result) == [op |-> op, result |-> result]

\* Grid.on_data_changed, connected to model.dataChanged
on_data_changed == changed_since_save' = TRUE

Rows == 0 .. shape[1] - 1
Columns == 0 .. shape[2] - 1
Tables == 0 .. shape[3] - 1

----------------------------------------------------------------------------
(* Actions *)

Init ==
    /\ shape = InitShape
    /\ dict_grid = EmptyMap
    /\ result_cache = EmptyMap
    /\ frozen_cache = EmptyMap
    /\ cell_attributes = <<>>
    /\ attr_cache = EmptyMap
    /\ table_cache = EmptyMap
    /\ macros = ""
    /\ globals = {}
    /\ table = 0
    /\ changed_since_save = FALSE
    /\ last_file_input_path = "home"
    /\ safe_mode = FALSE
    /\ clipboard = <<>>
    /\ loaded_from = "none"
    /\ spans = EmptyMap
    /\ disk = [file |-> <<>>, sig |-> <<>>]
    /\ undo_resizing = [row |-> FALSE, column |-> FALSE]
    /\ last = Call("init", None)

\* the editor or a command sets the code of a cell of the current table:
\* setData with EditRole, then dataChanged
SetCode(row, column, value, raw) ==
    LET key == <<row, column, table>>
        ca == setDataEdit(CA, key, value, raw)
    IN /\ InShape(key, shape)
       /\ Cardinality(DOMAIN ca.dict_grid) <= MaxCells
       /\ SetCA(ca)
       /\ on_data_changed
       /\ last' = Call(IF raw THEN "setData raw" ELSE "setData", "True")
       /\ UNCHANGED <<table, last_file_input_path, safe_mode, deskVars>>

\* a format command appends to the attribute log: setData with
\* DecorationRole, then dataChanged for the selected cells
SetFormat(sel, attr) ==
    /\ Len(cell_attributes) < MaxLog
    /\ SelInShape(sel, shape)
    /\ SetCA(setDataAttr(CA, <<sel, table, attr>>))
    /\ on_data_changed
    /\ last' = Call("setDataAttr", "True")
    /\ UNCHANGED <<table, last_file_input_path, safe_mode, deskVars>>

\* Grid.on_lock_pressed: the lock button sets the locked state of the
\* selected cells (commands.SetCellFormat)
on_lock_pressed(sel, toggled) ==
    /\ Len(cell_attributes) < MaxLog
    /\ SelInShape(sel, shape)
    /\ SetCA(setDataAttr(CA, <<sel, table, Diff1("locked", toggled)>>))
    /\ on_data_changed
    /\ last' = [op |-> "on_lock_pressed", result |-> "True", sel |-> sel]
    /\ UNCHANGED <<table, last_file_input_path, safe_mode, deskVars>>

\* the view reads a cell: data
Read(role, pt) ==
    LET key == <<pt[1], pt[2], table>>
        r == CASE role = "DisplayRole" -> dataDisplay(CA, key)
               [] role = "ToolTipRole" -> dataToolTip(CA, key)
               [] role = "TextColorRole" -> dataTextColor(CA, key)
    IN /\ InShape(key, shape)
       /\ SetCA(r.ca)
       /\ last' = Call(role, r.result)
       /\ UNCHANGED <<guiVars, deskVars>>

\* Grid.on_insert_rows: the rows of the selection's bounding box; the
\* command calls model.insertRows
on_insert_rows(top, bottom) ==
    LET r == insertRows(CA, table, top, bottom - top + 1)
    IN /\ InMaxShape(r.ca)
       /\ SetCA(r.ca)
       /\ last' = Call("insertRows", r.result)
       /\ UNCHANGED <<guiVars, deskVars>>

\* Grid.on_delete_rows
on_delete_rows(top, bottom) ==
    LET r == removeRows(CA, table, top, bottom - top + 1)
    IN /\ InMaxShape(r.ca)
       /\ SetCA(r.ca)
       /\ last' = Call("removeRows", r.result)
       /\ UNCHANGED <<guiVars, deskVars>>

\* Grid.on_insert_columns
on_insert_columns(left, right) ==
    LET r == insertColumns(CA, table, left, right - left + 1)
    IN /\ InMaxShape(r.ca)
       /\ SetCA(r.ca)
       /\ last' = Call("insertColumns", r.result)
       /\ UNCHANGED <<guiVars, deskVars>>

\* Grid.on_delete_columns
on_delete_columns(left, right) ==
    LET r == removeColumns(CA, table, left, right - left + 1)
    IN /\ InMaxShape(r.ca)
       /\ SetCA(r.ca)
       /\ last' = Call("removeColumns", r.result)
       /\ UNCHANGED <<guiVars, deskVars>>

\* Grid.on_insert_table: one table in front of the current table
on_insert_table ==
    LET r == insertTable(CA, table, 1)
    IN /\ InMaxShape(r.ca)
       /\ SetCA(r.ca)
       /\ last' = Call("insertTable", r.result)
       /\ UNCHANGED <<guiVars, deskVars>>

\* Grid.on_delete_table: the current table; the tab bar keeps its current
\* index inside the tables that are left
on_delete_table ==
    LET r == removeTable(CA, table, 1)
    IN /\ InMaxShape(r.ca)
       /\ SetCA(r.ca)
       /\ table' = Min(table, r.ca.shape[3] - 1)
       /\ last' = Call("removeTable", r.result)
       /\ UNCHANGED <<changed_since_save, last_file_input_path, safe_mode, deskVars>>

\* the statements of a handler that enter and leave the blocks of
\* Grid.undo_resizing_row and Grid.undo_resizing_column, and the resize
\* events of the headers that are emitted in between
ResizingStatements ==
    {"enter row", "exit row", "enter column", "exit column",
     "row resized", "column resized"}

\* Grid.undo_resizing_row, Grid.undo_resizing_column: the flags after a
\* statement
resizing_flags(flags, stmt) ==
    CASE stmt = "enter row" -> [flags EXCEPT !.row = TRUE]
      [] stmt = "exit row" -> [flags EXCEPT !.row = FALSE]
      [] stmt = "enter column" -> [flags EXCEPT !.column = TRUE]
      [] stmt = "exit column" -> [flags EXCEPT !.column = FALSE]
      [] OTHER -> flags

\* Grid.on_row_resized, Grid.on_column_resized: whether a command is pushed
on_resized(flags, stmt) ==
    \/ stmt = "row resized" /\ ~flags.row
    \/ stmt = "column resized" /\ ~flags.column

\* how many blocks of each kind are open after a statement
OpenBlocks(open, stmt) ==
    CASE stmt = "enter row" -> [open EXCEPT !.row = @ + 1]
      [] stmt = "exit row" -> [open EXCEPT !.row = @ - 1]
      [] stmt = "enter column" -> [open EXCEPT !.column = @ + 1]
      [] stmt = "exit column" -> [open EXCEPT !.column = @ - 1]
      [] OTHER -> open

\* the statements run one after the other: after each of them the flags,
\* the blocks that are open and whether the statement pushed a command
RECURSIVE RunResizing(_, _, _, _)
RunResizing(stmts, flags, open, i) ==
    IF i > Len(stmts) THEN <<>>
    ELSE LET f == resizing_flags(flags, stmts[i])
             o == OpenBlocks(open, stmts[i])
         IN <<[stmt |-> stmts[i], row |-> f.row, column |-> f.column,
               rows_open |-> o.row, columns_open |-> o.column,
               pushed |-> on_resized(flags, stmts[i])]>>
            \o RunResizing(stmts, f, o, i + 1)

\* a handler's statements run from the flags as they are
resizing(stmts) ==
    RunResizing(stmts, undo_resizing, [row |-> 0, column |-> 0], 1)

\* the flags that a run leaves
resized(run) ==
    IF run = <<>> THEN undo_resizing
    ELSE [row |-> run[Len(run)].row, column |-> run[Len(run)].column]

\* GridHeaderView.update_zoom of the header that emits the given event for
\* n of its sections
GridHeaderView_update_zoom(event, n) ==
    <<"enter row", "enter column">> \o [i \in 1 .. n |-> event]
    \o <<"exit column", "exit row">>

\* Grid.update_zoom: the vertical header, then the horizontal header
update_zoom(rows, columns) ==
    GridHeaderView_update_zoom("row resized", rows)
    \o GridHeaderView_update_zoom("column resized", columns)

\* update_cell_spans and update_zoom inside the blocks of both flags, as
\* in TableChoice.on_table_changed, file_new and filepath_open
update_spans_and_zoom(rows, columns) ==
    <<"enter row", "enter column">> \o update_zoom(rows, columns)
    \o <<"exit column", "exit row">>

\* how many sections of a header update_zoom resizes
ResizedSections == {1}

\* the zoom setter of Grid, from on_zoom_in, on_zoom_out and on_zoom_1
on_zoom ==
    \E rows \in ResizedSections : \E columns \in ResizedSections :
       LET run == resizing(update_zoom(rows, columns))
       IN /\ undo_resizing' = resized(run)
          /\ last' = [op |-> "on_zoom", result |-> None, resizing |-> run]
          /\ UNCHANGED <<caVars, guiVars, clipboard, loaded_from, spans, disk>>

\* the user drags the border of a row or a column in a header:
\* Grid.on_row_resized, Grid.on_column_resized
on_section_resized(event) ==
    /\ last' = [op |-> "on_section_resized",
                result |-> IF on_resized(undo_resizing, event) THEN "pushed"
                           ELSE None,
                event |-> event]
    /\ UNCHANGED <<caVars, guiVars, deskVars>>

\* the user picks a table: TableChoice.on_table_changed emits dataChanged
\* and updates the gui for the current cell, a point query of its attributes
on_table_changed(current, pt) ==
    LET key == <<pt[1], pt[2], current>>
        q == GetItemAttr(cell_attributes, attr_cache, table_cache, key)
    IN /\ current # table
       /\ InShape(key, shape)
       /\ table' = current
       /\ attr_cache' = q.attr_cache
       /\ table_cache' = q.table_cache
       /\ spans' = update_cell_spans(cell_attributes, current, pt)
       /\ on_data_changed
       /\ \E rows \in ResizedSections : \E columns \in ResizedSections :
             LET run == resizing(update_spans_and_zoom(rows, columns))
             IN /\ undo_resizing' = resized(run)
                /\ last' = [op |-> "on_table_changed", result |-> None,
                            resizing |-> run]
       /\ UNCHANGED <<shape, dict_grid, result_cache, frozen_cache,
                      cell_attributes, macros, globals,
                      last_file_input_path, safe_mode, clipboard, loaded_from,
                      disk>>

\* Grid.on_freeze_pressed for the current cell: nothing happens when the
\* cell already is in the state asked for
on_freeze_pressed(pt, toggled) ==
    LET key == <<pt[1], pt[2], table>>
        q == GetItemAttr(cell_attributes, attr_cache, table_cache, key)
        ca == [CA EXCEPT !.attr_cache = q.attr_cache,
                         !.table_cache = q.table_cache]
    IN /\ InShape(key, shape)
       /\ Len(cell_attributes) < MaxLog
       /\ IF q.value["frozen"] = toggled
          THEN /\ SetCA(ca)
               /\ last' = [op |-> "on_freeze_pressed", result |-> "None",
                           key |-> key, toggled |-> toggled]
          ELSE /\ SetCA(IF toggled THEN FreezeCell(ca, key) ELSE ThawCell(ca, key))
               /\ last' = [op |-> "on_freeze_pressed",
                           result |-> IF toggled THEN "frozen" ELSE "thawed",
                           key |-> key, toggled |-> toggled]
       /\ UNCHANGED <<guiVars, deskVars>>

\* Grid._refresh_frozen_cell: the pinned result of a cell that reads as frozen
refresh_frozen_cell(ca, key) ==
    IF GetItemAttr(ca.cell_attributes, ca.attr_cache, ca.table_cache, key).value["frozen"]
    THEN EvalCellIn(ca.globals, CodeArrayCall(ca, key))
    ELSE IF key \in DOMAIN ca.frozen_cache THEN ca.frozen_cache[key] ELSE None

\* Grid.refresh_frozen_cells: every key of the frozen cache is refreshed, the
\* attribute caches and the result cache are cleared, dataChanged
refresh_frozen_cells ==
    /\ SetCA([CA EXCEPT
                !.frozen_cache = [k \in DOMAIN @ |-> refresh_frozen_cell(CA, k)],
                !.attr_cache = EmptyMap,
                !.table_cache = EmptyMap,
                !.result_cache = EmptyMap])
    /\ on_data_changed
    /\ last' = Call("refresh_frozen_cells", "None")
    /\ UNCHANGED <<table, last_file_input_path, safe_mode, deskVars>>

\* Grid.refresh_selected_frozen_cells: the selected cells that read as frozen
\* are refreshed, the attribute caches are cleared, dataChanged
refresh_selected_frozen_cells(sel) ==
    LET hit == {k \in Keys(shape) : k[3] = table /\ Contains(sel, k[1], k[2]) /\
                   GetItemAttr(cell_attributes, attr_cache, table_cache, k).value["frozen"]}
    IN /\ SelInShape(sel, shape)
       /\ SetCA([CA EXCEPT
                   !.frozen_cache = [k \in (DOMAIN @) \cup hit |->
                                        IF k \in hit THEN refresh_frozen_cell(CA, k)
                                        ELSE @[k]],
                   !.attr_cache = EmptyMap,
                   !.table_cache = EmptyMap])
       /\ on_data_changed
       /\ last' = [op |-> "refresh_selected_frozen_cells", result |-> "None",
                   sel |-> sel]
       /\ UNCHANGED <<table, last_file_input_path, safe_mode, deskVars>>

\* GridTableModel.setData with code for a cell of a grid of which every
\* cell may hold code
EditCode(row, column, value) ==
    LET key == <<row, column, table>>
    IN /\ InShape(key, shape)
       /\ SetCA(setDataEdit(CA, key, value, FALSE))
       /\ on_data_changed
       /\ last' = [op |-> "setData", result |-> "True", key |-> key]
       /\ UNCHANGED <<table, last_file_input_path, safe_mode, deskVars>>

\* the texts whose characters are known
Texts ==
    {"", "hi", "Hi", "high", "h.", "0", "1", "2", "1gh", " hi ", "'hi'", "\"hi\"",
     "u'hi'", "u\"hi\"", "\"u'hi'\"", "'u\"hi\"'", "it's", "\"it's\"",
     "'\"", "'\\'\"'", "'1'", " "}

\* the text with the given characters
Text(chars) == CHOOSE text \in Texts : Chars(text) = chars

\* str.strip
strip(chars) ==
    LET solid == {i \in DOMAIN chars : chars[i] # " "}
    IN IF solid = {} THEN <<>>
       ELSE SubSeq(chars, CHOOSE i \in solid : \A j \in solid : i <= j,
                   CHOOSE i \in solid : \A j \in solid : i >= j)

\* repr of a str: in single quotes, unless it holds a single quote and no
\* double quote; the backslash and the enclosing quote are escaped
RECURSIVE Escaped(_, _, _)
Escaped(chars, q, i) ==
    IF i > Len(chars) THEN <<>>
    ELSE (IF chars[i] \in {q, "\\"} THEN <<"\\", chars[i]>> ELSE <<chars[i]>>)
         \o Escaped(chars, q, i + 1)

repr(chars) ==
    LET q == IF "'" \in Range(chars) /\ "\"" \notin Range(chars)
             THEN "\"" ELSE "'"
    IN <<q>> \o Escaped(chars, q, 1) \o <<q>>

\* quote: starts_and_ends
starts_and_ends ==
    {<<"'", "'">>, <<"\"", "\"">>, <<"u'", "'">>, <<"u\"", "\"">>}

\* quote(code) of lib.string_helpers
quote(text) ==
    IF text = None THEN text
    ELSE LET chars == strip(Chars(text))
         IN IF chars # <<>> /\ <<chars[1], chars[Len(chars)]>> \notin starts_and_ends
            THEN Text(repr(chars))
            ELSE Text(chars)

\* the loop of Grid.on_quote over the selected cells: the code of each is
\* set to its quoted code (commands.SetCellCode)
RECURSIVE QuoteCells(_, _, _, _)
QuoteCells(ca, cells, tab, i) ==
    IF i > Len(cells) THEN ca
    ELSE LET key == <<cells[i][1], cells[i][2], tab>>
         IN QuoteCells(setDataEdit(ca, key, quote(CodeArrayCall(ca, key)), TRUE),
                       cells, tab, i + 1)

\* Grid.on_quote for the selected cells
on_quote(sel) ==
    LET cells == cell_generator(sel, shape)
    IN /\ SelInShape(sel, shape)
       /\ SetCA(QuoteCells(CA, cells, table, 1))
       /\ changed_since_save' = (changed_since_save \/ cells # <<>>)
       /\ last' = [op |-> "on_quote", result |-> "None",
                   code |-> MapSeq(cells, LAMBDA pt :
                               CodeArrayCall(CA, <<pt[1], pt[2], table>>)),
                   quoted |-> MapSeq(cells, LAMBDA pt :
                               quote(CodeArrayCall(CA, <<pt[1], pt[2], table>>)))]
       /\ UNCHANGED <<table, last_file_input_path, safe_mode, deskVars>>

\* GridCellDelegate.eventFilter on <Ctrl>+<Enter> in the editor of the
\* current cell: the quoted text of the editor becomes the code of the cell
eventFilter(pt, text) ==
    LET key == <<pt[1], pt[2], table>>
        ca == setDataEdit(CA, key, quote(text), TRUE)
    IN /\ InShape(key, shape)
       /\ Cardinality(DOMAIN ca.dict_grid) <= MaxCells
       /\ SetCA(ca)
       /\ on_data_changed
       /\ last' = [op |-> "eventFilter", result |-> "None",
                   code |-> <<text>>, quoted |-> <<quote(text)>>]
       /\ UNCHANGED <<table, last_file_input_path, safe_mode, deskVars>>

\* Grid.on_merge_pressed: commands.SetCellMerge sets the attribute
\* (setData, dataChanged) and updates the cell spans
on_merge_pressed(sel) ==
    LET attr == MergeAttr(sel, table, spans, shape)
        tl == get_grid_bbox(sel, shape)[1]
        ca == setDataAttr(CA, attr[1])
    IN /\ SelInShape(sel, shape)
       /\ Len(cell_attributes) < MaxMerges
       /\ IF attr = <<>>
          THEN /\ UNCHANGED <<caVars, guiVars, deskVars>>
               /\ last' = Call("on_merge_pressed", "None")
          ELSE /\ SetCA(ca)
               /\ spans' = update_cell_spans(ca.cell_attributes, table, tl)
               /\ on_data_changed
               /\ last' = [op |-> "on_merge_pressed",
                           result |-> IF attr[1][3]["merge_area"] = NoArea
                                      THEN "unmerged" ELSE "merged",
                           sel |-> sel]
               /\ UNCHANGED <<table, last_file_input_path, safe_mode,
                              clipboard, loaded_from, disk, undo_resizing>>

RECURSIVE DeleteCellsFirstOnly(_, _, _, _)
DeleteCellsFirstOnly(ca, cells, tab, i) ==
    IF i > Min(1, Len(cells)) THEN ca
    ELSE LET key == <<cells[i][1], cells[i][2], tab>>
             q == GetItemAttr(ca.cell_attributes, ca.attr_cache,
                              ca.table_cache, key)
             seen == [ca EXCEPT !.attr_cache = q.attr_cache,
                                !.table_cache = q.table_cache]
         IN DeleteCellsFirstOnly(IF q.value["locked"] THEN seen
                                 ELSE setDataEdit(seen, key, None, TRUE),
                                 cells, tab, i + 1)

\* the loop of Workflows.delete over the cells of the selection: the code of
\* a cell that is not locked is popped (commands.SetCellCode with None)
RECURSIVE DeleteCells(_, _, _, _)
DeleteCells(ca, cells, tab, i) ==
    IF i > Len(cells) THEN ca
    ELSE LET key == <<cells[i][1], cells[i][2], tab>>
             q == GetItemAttr(ca.cell_attributes, ca.attr_cache,
                              ca.table_cache, key)
             seen == [ca EXCEPT !.attr_cache = q.attr_cache,
                                !.table_cache = q.table_cache]
         IN DeleteCells(IF q.value["locked"] THEN seen
                        ELSE setDataEdit(seen, key, None, TRUE),
                        cells, tab, i + 1)

\* Workflows.delete: the cells of the selection inside the shape
delete(sel) ==
    LET cells == cell_generator(sel, shape)
    IN /\ SelInShape(sel, shape)
       /\ SetCA(DeleteCells(CA, cells, table, 1))
       /\ changed_since_save' = (changed_since_save \/ cells # <<>>)
       /\ last' = [op |-> "delete", result |-> "None", sel |-> sel,
                   cells |-> cells]
       /\ UNCHANGED <<table, last_file_input_path, safe_mode, deskVars>>

\* Workflows.edit_copy: the code of the selected cells of the bounding box
\* of the selection, row by row, the empty string for the other cells
edit_copy(ca, sel, tab, shp) ==
    LET bbox == get_grid_bbox(sel, shp)
        top == bbox[1][1]
        left == bbox[1][2]
        bottom == bbox[2][1]
        right == bbox[2][2]
    IN [r \in 1 .. bottom - top + 1 |->
          [c \in 1 .. right - left + 1 |->
             IF Contains(sel, top + r - 1, left + c - 1)
             THEN LET given == code(ca, <<top + r - 1, left + c - 1, tab>>)
                  IN IF given = None THEN "" ELSE given
             ELSE ""]]

\* Workflows.edit_cut: edit_copy, then delete
edit_cut(sel) ==
    LET cells == cell_generator(sel, shape)
    IN /\ SelInShape(sel, shape)
       /\ SetCA(DeleteCells(CA, cells, table, 1))
       /\ changed_since_save' = (changed_since_save \/ cells # <<>>)
       /\ last' = [op |-> "edit_cut", result |-> "None", sel |-> sel,
                   cells |-> cells,
                   copied |-> edit_copy(CA, sel, table, shape)]
       /\ UNCHANGED <<table, last_file_input_path, safe_mode, deskVars>>

\* merged cells and frozen cells are not copied
RemoveTabu(attrs) == [a \in (DOMAIN attrs) \ {"merge_area", "frozen"} |-> attrs[a]]

CopiedFormatsEveryEntry(sel, log, tab, shp) ==
    LET tl == get_grid_bbox(sel, shp)[1]
    IN MapSeq(ForTable(log, tab), LAMBDA e :
          <<shifted(intersect(sel, e[1]), -tl[1], -tl[2]), RemoveTabu(e[3])>>)

\* the loop of Workflows.format_copy_format: of every entry of the table
\* what its selection shares with the grid selection, if that is not empty,
\* shifted so that the top left corner of the grid selection's bounding box
\* is (0, 0)
CopiedFormats(sel, log, tab, shp) ==
    LET tl == get_grid_bbox(sel, shp)[1]
        hits == SelectSeq(ForTable(log, tab),
                          LAMBDA e : ~IsEmpty(intersect(sel, e[1])))
    IN MapSeq(hits, LAMBDA e :
          <<shifted(intersect(sel, e[1]), -tl[1], -tl[2]), RemoveTabu(e[3])>>)

\* Workflows.format_copy_format for the grid selection
format_copy_format(sel) ==
    /\ SelInShape(sel, shape)
    /\ clipboard' = CopiedFormats(sel, cell_attributes, table, shape)
    /\ last' = [op |-> "format_copy_format", result |-> "None", sel |-> sel]
    /\ UNCHANGED <<caVars, guiVars, loaded_from, spans, disk, undo_resizing>>

RECURSIVE PasteFormatsUnshifted(_, _, _, _, _)
PasteFormatsUnshifted(ca, cas, key, shp, i) ==
    IF i > Len(cas) THEN ca
    ELSE PasteFormatsUnshifted(
            IF \E a \in {"merge_area", "frozen"} : a \in DOMAIN cas[i][2]
            THEN ca
            ELSE setDataAttr(ca, <<cas[i][1], key[3], cas[i][2]>>),
            cas, key, shp, i + 1)

\* the loop of Workflows.format_paste_format: each selection of the
\* clipboard is shifted to the current cell and set with its attributes
\* (commands.SetCellFormat)
RECURSIVE PasteFormats(_, _, _, _, _)
PasteFormats(ca, cas, key, shp, i) ==
    IF i > Len(cas) THEN ca
    ELSE PasteFormats(
            IF \E a \in {"merge_area", "frozen"} : a \in DOMAIN cas[i][2]
            THEN ca
            ELSE setDataAttr(ca, <<shifted(cas[i][1], key[1], key[2]), key[3],
                                   cas[i][2]>>),
            cas, key, shp, i + 1)

\* Workflows.format_paste_format at the current cell
format_paste_format(pt) ==
    LET key == <<pt[1], pt[2], table>>
    IN /\ InShape(key, shape)
       /\ Len(cell_attributes) + Len(clipboard) <= MaxLog
       /\ SetCA(PasteFormats(CA, clipboard, key, shape, 1))
       /\ changed_since_save' = (changed_since_save \/ clipboard # <<>>)
       /\ last' = [op |-> "format_paste_format", result |-> "None", key |-> key,
                   cells |-> MapSeq(clipboard, LAMBDA c :
                      cell_generator(shifted(c[1], key[1], key[2]), shape))]
       /\ UNCHANGED <<table, last_file_input_path, safe_mode, deskVars>>

\* GridCellNavigator._merging_key: the merging cell of a key that is merged,
\* else the key
merging_key(log, key) ==
    IF get_merging_cell(log, key) = NoKey THEN key
    ELSE get_merging_cell(log, key)

\* GridCellNavigator.above_keys, below_keys, left_keys, right_keys and the
\* keys of the corners above left, above right and below left, as they are
\* handed to _merging_key: beside the key's row and column, along its merge
\* area if it has one
neighbour_keys(area, key) ==
    LET rows == IF area = NoArea THEN {key[1]} ELSE area[1] .. area[3]
        cols == IF area = NoArea THEN {key[2]} ELSE area[2] .. area[4]
    IN {<<key[1] - 1, col, key[3]>> : col \in cols}
       \cup {<<key[1] + 1, col, key[3]>> : col \in cols}
       \cup {<<row, key[2] - 1, key[3]>> : row \in rows}
       \cup {<<row, key[2] + 1, key[3]>> : row \in rows}
       \cup {<<key[1] - 1, key[2] - 1, key[3]>>,
             <<key[1] - 1, key[2] + 1, key[3]>>,
             <<key[1] + 1, key[2] - 1, key[3]>>}

\* cell_attributes[key] for each key of a set of keys of one table
QueryAll(ca, keys) ==
    [ca EXCEPT
       !.attr_cache =
           [k \in (DOMAIN @) \cup keys |->
               GetItemAttr(ca.cell_attributes, ca.attr_cache, ca.table_cache,
                           k).value],
       !.table_cache =
           IF keys \subseteq DOMAIN ca.attr_cache THEN @
           ELSE LET k == CHOOSE k \in keys : k \notin DOMAIN ca.attr_cache
                IN GetItemAttr(ca.cell_attributes, ca.attr_cache,
                               ca.table_cache, k).table_cache]

\* GridCellDelegate._paint_border_lines for the cell at pt: the border widths
\* of the cell and of the merging cells of its neighbours are looked up
paint_border_lines(pt) ==
    LET key == <<pt[1], pt[2], table>>
        area == GetItemAttr(cell_attributes, attr_cache, table_cache,
                            key).value["merge_area"]
        raw == neighbour_keys(area, key)
        asked == {key} \cup {merging_key(cell_attributes, k) : k \in raw}
    IN /\ InShape(key, shape)
       /\ SetCA(QueryAll(CA, asked))
       /\ last' = [op |-> "_paint_border_lines", result |-> "None",
                   merging |-> raw, attributes |-> asked]
       /\ UNCHANGED <<guiVars, deskVars>>

start_keyFromCurrent(pt, tab, from_start, up) ==
    IF up THEN <<pt[1] - 1, pt[2], tab>> ELSE <<pt[1] + 1, pt[2], tab>>

\* Workflows._get_next_match, the key the search starts at: the top left
\* cell of the table, or the cell above or below the current cell
start_key(pt, tab, from_start, up) ==
    IF from_start THEN <<0, 0, tab>>
    ELSE IF up THEN <<pt[1] - 1, pt[2], tab>> ELSE <<pt[1] + 1, pt[2], tab>>

\* Workflows.find_dialog_on_find (from_start as ticked in the dialog) and
\* Workflows.edit_find_next (never from the start) in a grid of one table,
\* with the current cell at pt: the match becomes the current cell
edit_find_next(pt, find_string, from_start, up, word, case, regexp, results) ==
    LET start == start_key(pt, table, from_start, up)
        r == findnextmatch(CA, start, find_string, up, word, case, regexp,
                           results)
    IN /\ InShape(<<pt[1], pt[2], table>>, shape)
       /\ shape[3] = 1
       /\ SetCA(r.ca)
       /\ last' = [op |-> "edit_find_next", result |-> "None", pt |-> pt,
                   from_start |-> from_start, match |-> r.key, find_string |-> find_string, up |-> up,
                   word |-> word, case |-> case, regexp |-> regexp,
                   results |-> results]
       /\ UNCHANGED <<guiVars, deskVars>>

\* str.replace(old, new, count) from the i-th character on: the occurrences
\* of old from left to right, at most count of them unless count is negative
RECURSIVE ReplaceFrom(_, _, _, _, _)
ReplaceFrom(chars, old, new, count, i) ==
    IF i > Len(chars) THEN <<>>
    ELSE IF /\ count # 0
            /\ old # <<>>
            /\ i + Len(old) - 1 <= Len(chars)
            /\ SubSeq(chars, i, i + Len(old) - 1) = old
    THEN new \o ReplaceFrom(chars, old, new, count - 1, i + Len(old))
    ELSE <<chars[i]>> \o ReplaceFrom(chars, old, new, count, i + 1)

str_replace(text, old, new, count) ==
    Text(ReplaceFrom(Chars(text), Chars(old), Chars(new), count, 1))

\* Workflows.replace_dialog_on_replace after the next match r was looked
\* for: a match gets its code with the find string replaced
\* (commands.SetCellCode) and becomes the current cell, and the from start
\* box is unticked; True on a match
replace_match(r, pt, find_string, replace_string, from_start, max_) ==
    IF r.key # NoKey
    THEN [ca |-> setDataEdit(r.ca, r.key,
                             str_replace(CodeArrayCall(r.ca, r.key),
                                         find_string, replace_string, max_),
                             TRUE),
          current |-> <<r.key[1], r.key[2]>>, from_start |-> FALSE,
          returned |-> "True"]
    ELSE [ca |-> r.ca, current |-> pt, from_start |-> from_start,
          returned |-> "None"]

\* Workflows.replace_dialog_on_replace with the current cell pt and the
\* boxes of the dialog
replace_dialog_on_replace(ca, tab, pt, find_string, replace_string, from_start, up, word, case, regexp, results, max_) ==
    replace_match(findnextmatch(ca, start_key(pt, tab, from_start, up),
                                find_string, up, word, case, regexp, results),
                  pt, find_string, replace_string, from_start, max_)

\* Workflows.replace_dialog_on_replace_all is in its loop
ReplacingAll ==
    last.op = "replace_dialog_on_replace_all" /\ last.result = "True"

\* a turn of the loop of Workflows.replace_dialog_on_replace_all after r was
\* returned by replace_dialog_on_replace
replace_all_turn(r, find_string, replace_string, up, word, case, regexp, results) ==
    /\ SetCA(r.ca)
    /\ changed_since_save' = (changed_since_save \/ r.returned = "True")
    /\ last' = [op |-> "replace_dialog_on_replace_all",
                result |-> r.returned, current |-> r.current,
                find_string |-> find_string,
                replace_string |-> replace_string,
                from_start |-> r.from_start, up |-> up, word |-> word,
                case |-> case, regexp |-> regexp, results |-> results]
    /\ UNCHANGED <<table, last_file_input_path, safe_mode, deskVars>>

\* Workflows.replace_dialog_on_replace_all up to the end of the first turn
\* of its loop
replace_dialog_on_replace_all(pt, find_string, replace_string, from_start, up, word, case, regexp, results) ==
    /\ ~ReplacingAll
    /\ InShape(<<pt[1], pt[2], table>>, shape)
    /\ shape[3] = 1
    /\ replace_all_turn(
          replace_dialog_on_replace(CA, table, pt, find_string, replace_string,
                                    from_start, up, word, case, regexp,
                                    results, -1),
          find_string, replace_string, up, word, case, regexp, results)

\* one more turn of the loop of Workflows.replace_dialog_on_replace_all
replace_all_loop ==
    /\ ReplacingAll
    /\ replace_all_turn(
          replace_dialog_on_replace(CA, table, last.current, last.find_string,
                                    last.replace_string, last.from_start,
                                    last.up, last.word, last.case, last.regexp,
                                    last.results, -1),
          last.find_string, last.replace_string, last.up, last.word, last.case,
          last.regexp, last.results)

\* the macro panel applies the macros of its editor
on_apply_macros(value) ==
    /\ value # macros
    /\ SetCA(ExecuteMacros(CA, value))
    /\ last' = Call("on_apply_macros", "None")
    /\ UNCHANGED <<guiVars, deskVars>>

\* a line of a pys file as PysReader takes it in: the shape of the grid, the
\* code of a cell, or a line that cannot be parsed
ShapeLine(value) == [kind |-> "shape", value |-> value]

GridLine(key, value) == [kind |-> "grid", key |-> key, value |-> value]

BadLine == [kind |-> "bad"]

\* Workflows.sign_file: the signature file is written unless in safe mode
sign_file(sm) == IF sm THEN "none" ELSE "written"

\* DiscardChangesDialog.choice: Cancel, Discard or Save
Choices == {"cancel", "discard", "save"}

\* how saving goes: the save-as dialog is aborted, the progress dialog is
\* canceled, writing the temporary file fails, the file is not writable or
\* cannot be moved, or the file is written
Saves == {"aborted", "canceled", "OSError", "PermissionError", "saved"}

\* PysWriter: the lines of the save file, the shape and the code of the
\* cells
PysWriter(ca) ==
    <<ShapeLine(ca.shape)>> \o
    MapSeq(SelectSeq(KeysInOrder(ca.shape), LAMBDA k : k \in DOMAIN ca.dict_grid),
           LAMBDA k : GridLine(k, ca.dict_grid[k]))

\* the save file and its signature file once a file was opened: the
\* signature file verifies if it signs the lines of the file
opened(lines, verified) ==
    [file |-> lines, sig |-> IF verified THEN lines ELSE <<>>]

_saveInPlace(ca, d, sm, how) ==
    LET lines == PysWriter(ca)
        tempfile == IF how \in {"canceled", "OSError"} THEN SubSeq(lines, 1, 1)
                    ELSE lines
    IN IF how = "PermissionError" THEN d
       ELSE [file |-> tempfile,
             sig |-> IF how = "saved" /\ sign_file(sm) = "written" THEN tempfile
                     ELSE d.sig]

\* Workflows._save: the lines are written to a temporary file, which is
\* left incomplete and deleted when the progress dialog is canceled or
\* writing fails; it is moved to the file path if that is writable, and
\* then the file is signed
_save(ca, d, sm, how) ==
    LET lines == PysWriter(ca)
        tempfile == IF how \in {"canceled", "OSError"} THEN SubSeq(lines, 1, 1)
                    ELSE lines
    IN IF how \in {"canceled", "OSError", "PermissionError"} THEN d
       ELSE [file |-> tempfile,
             sig |-> IF sign_file(sm) = "written" THEN tempfile ELSE d.sig]

\* Workflows.file_save as called by handle_changed_since_save: what it
\* leaves of changed_since_save and last_file_input_path.  A file that was
\* never saved asks for a path (file_save_as); save is "aborted" when that
\* dialog is canceled, "failed" when writing fails, "saved" otherwise.
file_save(save) ==
    [returned |-> IF last_file_input_path = "home" /\ save = "aborted"
                  THEN "False" ELSE "None",
     changed_since_save |-> IF save = "saved" THEN FALSE ELSE changed_since_save,
     last_file_input_path |-> IF save = "saved" THEN "file"
                              ELSE last_file_input_path,
     signature |-> IF save = "saved" THEN sign_file(safe_mode) ELSE "none",
     disk |-> IF save = "aborted" THEN disk ELSE _save(CA, disk, safe_mode, save)]

\* Workflows.file_save from the menu or the toolbar
file_save_triggered(save) ==
    /\ save = "aborted" => last_file_input_path = "home"
    /\ changed_since_save' = file_save(save).changed_since_save
    /\ last_file_input_path' = file_save(save).last_file_input_path
    /\ disk' = file_save(save).disk
    /\ last' = [op |-> "file_save", result |-> file_save(save).returned,
                save |-> save, signature |-> file_save(save).signature]
    /\ UNCHANGED <<caVars, table, safe_mode, clipboard, loaded_from, spans,
                   undo_resizing>>

\* Workflows.handle_changed_since_save: whether the wrapped workflow runs
handle_changed_since_save(choice, save) ==
    \/ ~changed_since_save
    \/ choice = "discard"
    \/ choice = "save" /\ file_save(save).returned # "False"

\* what is remembered of a call of a wrapped workflow: whether the dialog
\* was shown, its answer, and how saving went when Save was the answer
Wrapped(op, result, choice, save) ==
    [op |-> op, result |-> result, asked |-> changed_since_save,
     choice |-> IF changed_since_save THEN choice ELSE "none",
     save |-> IF changed_since_save /\ choice = "save" THEN save ELSE "none"]

\* the same of a wrapped workflow that went through the blocks of the
\* resizing flags
WrappedResizing(op, result, choice, save, run) ==
    [op |-> op, result |-> result, asked |-> changed_since_save,
     choice |-> IF changed_since_save THEN choice ELSE "none",
     save |-> IF changed_since_save /\ choice = "save" THEN save ELSE "none",
     resizing |-> run]

\* Workflows.file_new, wrapped by handle_changed_since_save
file_new(choice, save, shp) ==
    LET saving == changed_since_save /\ choice = "save"
        path == IF saving THEN file_save(save).last_file_input_path
                ELSE last_file_input_path
        after_save == IF saving THEN file_save(save).disk ELSE disk
    IN /\ save = "aborted" => last_file_input_path = "home"
       /\ IF ~handle_changed_since_save(choice, save)
          THEN /\ UNCHANGED <<caVars, guiVars, deskVars>>
               /\ last' = Wrapped("file_new", "not run", choice, save)
          ELSE IF shp = NoShape \/ GridShapeError(shp) # None
          THEN /\ UNCHANGED <<caVars, table, safe_mode, clipboard, loaded_from,
                              spans, undo_resizing>>
               /\ disk' = after_save
               /\ last_file_input_path' = path
               /\ changed_since_save' = FALSE
               /\ last' = Wrapped("file_new", IF shp = NoShape THEN "canceled"
                                              ELSE GridShapeError(shp),
                                  choice, save)
          ELSE /\ SetCA(setShape(reset(CA), shp))
               /\ table' = 0
               /\ last_file_input_path' = "home"
               /\ changed_since_save' = FALSE
               /\ safe_mode' = FALSE
               /\ loaded_from' = "none"
               /\ spans' = update_cell_spans(reset(CA).cell_attributes, 0, <<0, 0>>)
               /\ disk' = after_save
               /\ \E rows \in ResizedSections : \E columns \in ResizedSections :
                     LET run == resizing(update_spans_and_zoom(rows, columns))
                     IN /\ undo_resizing' = resized(run)
                        /\ last' = WrappedResizing("file_new", "None", choice,
                                                   save, run)
               /\ UNCHANGED clipboard

\* Workflows.edit_resize: the current cell becomes (0, 0, 0), which is a
\* table change (with its dataChanged) unless table 0 is shown already
edit_resize(shp) ==
    IF shp = NoShape \/ GridShapeError(shp) # None
    THEN /\ UNCHANGED <<caVars, guiVars, deskVars>>
         /\ last' = Call("edit_resize", IF shp = NoShape THEN "canceled"
                                        ELSE GridShapeError(shp))
    ELSE /\ SetCA(SetGridSize(CA, shp))
         /\ table' = 0
         /\ changed_since_save' = (changed_since_save \/ table # 0)
         /\ last' = Call("edit_resize", "None")
         /\ UNCHANGED <<last_file_input_path, safe_mode, deskVars>>

\* Workflows.filepath_open for a file that is missing (its size cannot be
\* read) or that cannot be opened for reading (OSError): the grid is reset
filepath_open(file, verified) ==
    IF file = "missing"
    THEN /\ UNCHANGED <<caVars, guiVars, deskVars>>
         /\ last' = Call("filepath_open", "missing")
    ELSE /\ SetCA(reset(reset(CA)))
         /\ safe_mode' = ~verified
         /\ loaded_from' = "none"
         /\ last' = Call("filepath_open", "OSError")
         /\ UNCHANGED <<table, changed_since_save, last_file_input_path,
                        clipboard, spans, disk, undo_resizing>>

\* PysReader: the line is put into the code array before it is yielded;
\* ValueError for a line that cannot be parsed
ReadLine(ca, line) ==
    CASE line.kind = "shape" ->
            [ca |-> CodeArraySetShape(ca, line.value), raised |-> FALSE]
      [] line.kind = "grid" ->
            [ca |-> CodeArraySetItem(ca, line.key, line.value), raised |-> FALSE]
      [] OTHER -> [ca |-> ca, raised |-> TRUE]

\* the loop of Workflows.filepath_open over the lines from line i on: after
\* each line the progress dialog is asked whether it was canceled (the
\* dialog is canceled after line number canceled, never if that is 0); on
\* cancel the grid is reset and the loop is left, on ValueError the grid is
\* reset and the workflow returns
RECURSIVE ReadLines(_, _, _, _)
ReadLines(ca, lines, i, canceled) ==
    IF i > Len(lines) THEN [ca |-> ca, outcome |-> "read"]
    ELSE LET r == ReadLine(ca, lines[i])
         IN IF r.raised THEN [ca |-> reset(ca), outcome |-> "ValueError"]
            ELSE IF canceled = i THEN [ca |-> reset(r.ca), outcome |-> "canceled"]
            ELSE ReadLines(r.ca, lines, i + 1, canceled)

\* the pys files that are opened
Files ==
    {<<ShapeLine(<<2, 1, 1>>), GridLine(<<0, 0, 0>>, "1"),
       GridLine(<<1, 0, 0>>, "hi")>>,
     <<ShapeLine(<<3, 1, 1>>), GridLine(<<2, 0, 0>>, "hi"), BadLine>>}

\* where the content of the grid stems from after a file was opened: a file
\* whose signature verified, a file without a valid signature, or no file
\* when the grid was reset on cancel
Signed(outcome, verified) ==
    IF outcome = "canceled" THEN "none"
    ELSE IF verified THEN "verified" ELSE "unverified"

\* Workflows.filepath_open: safe mode is on unless the signature file is
\* there and verifies; canceling the progress dialog switches it off
safe_mode_afterVerifiedOrNot(outcome, verified) == FALSE

safe_mode_after(outcome, verified) ==
    IF outcome = "canceled" THEN FALSE ELSE ~verified

\* Workflows.filepath_open for a file that can be read: the grid is reset,
\* the lines are read, and unless a line could not be parsed the shape is
\* set, the path is remembered and the grid counts as saved
filepath_open_lines(lines, verified, canceled) ==
    LET r == ReadLines(reset(CA), lines, 1, canceled)
    IN IF r.outcome = "ValueError"
       THEN /\ SetCA(r.ca)
            /\ safe_mode' = safe_mode_after(r.outcome, verified)
            /\ loaded_from' = "none"
            /\ last' = Call("filepath_open", "ValueError")
            /\ UNCHANGED <<table, changed_since_save, last_file_input_path,
                           clipboard, spans, disk, undo_resizing>>
       ELSE /\ SetCA(setShape(r.ca, r.ca.shape))
            /\ table' = Min(table, r.ca.shape[3] - 1)
            /\ safe_mode' = safe_mode_after(r.outcome, verified)
            /\ last_file_input_path' = "file"
            /\ changed_since_save' = FALSE
            /\ loaded_from' = Signed(r.outcome, verified)
            /\ spans' = update_cell_spans(r.ca.cell_attributes,
                                          Min(table, r.ca.shape[3] - 1), <<0, 0>>)
            /\ disk' = opened(lines, verified)
            /\ \E rows \in ResizedSections : \E columns \in ResizedSections :
                  LET run == resizing(update_spans_and_zoom(rows, columns))
                  IN /\ undo_resizing' = resized(run)
                     /\ last' = [op |-> "filepath_open", result |-> r.outcome,
                                 resizing |-> run]
            /\ UNCHANGED clipboard

\* Workflows.file_open_recent, wrapped by handle_changed_since_save, for a
\* file that can be read: filepath_open, then reset_changed_since_save
file_open_recent(choice, save, lines, verified, canceled) ==
    LET saving == changed_since_save /\ choice = "save"
        path == IF saving THEN file_save(save).last_file_input_path
                ELSE last_file_input_path
        after_save == IF saving THEN file_save(save).disk ELSE disk
        r == ReadLines(reset(CA), lines, 1, canceled)
    IN /\ save = "aborted" => last_file_input_path = "home"
       /\ IF ~handle_changed_since_save(choice, save)
          THEN /\ UNCHANGED <<caVars, guiVars, deskVars>>
               /\ last' = Wrapped("file_open_recent", "not run", choice, save)
          ELSE IF r.outcome = "ValueError"
          THEN /\ SetCA(r.ca)
               /\ safe_mode' = safe_mode_after(r.outcome, verified)
               /\ last_file_input_path' = path
               /\ changed_since_save' = FALSE
               /\ loaded_from' = "none"
               /\ disk' = after_save
               /\ last' = Wrapped("file_open_recent", "ValueError", choice, save)
               /\ UNCHANGED <<table, clipboard, spans, undo_resizing>>
          ELSE /\ SetCA(setShape(r.ca, r.ca.shape))
               /\ table' = Min(table, r.ca.shape[3] - 1)
               /\ safe_mode' = safe_mode_after(r.outcome, verified)
               /\ last_file_input_path' = "file"
               /\ changed_since_save' = FALSE
               /\ loaded_from' = Signed(r.outcome, verified)
               /\ spans' = update_cell_spans(r.ca.cell_attributes,
                                             Min(table, r.ca.shape[3] - 1),
                                             <<0, 0>>)
               /\ disk' = opened(lines, verified)
               /\ \E rows \in ResizedSections : \E columns \in ResizedSections :
                     LET run == resizing(update_spans_and_zoom(rows, columns))
                     IN /\ undo_resizing' = resized(run)
                        /\ last' = WrappedResizing("file_open_recent", r.outcome,
                                                   choice, save, run)
               /\ UNCHANGED clipboard

----------------------------------------------------------------------------
(* Specifications *)

\* insert and delete of rows, columns and tables
Structural ==
    \/ \E top \in Rows : \E bottom \in top .. shape[1] - 1 :
          on_insert_rows(top, bottom)
    \/ \E top \in Rows : \E bottom \in top .. shape[1] - 1 :
          on_delete_rows(top, bottom)
    \/ \E left \in Columns : \E right \in left .. shape[2] - 1 :
          on_insert_columns(left, right)
    \/ \E left \in Columns : \E right \in left .. shape[2] - 1 :
          on_delete_columns(left, right)
    \/ on_insert_table
    \/ on_delete_table

\* the cell store under edits, reads and structural edits
NextGrid ==
    \/ \E pt \in EditCells : \E value \in Codes :
          SetCode(pt[1], pt[2], value, FALSE)
    \/ \E pt \in EditCells : SetCode(pt[1], pt[2], None, TRUE)
    \/ \E pt \in ViewCells : Read("ToolTipRole", pt)
    \/ \E current \in Tables : \E pt \in ViewCells : on_table_changed(current, pt)
    \/ Structural

SpecGrid == Init /\ [][NextGrid]_vars

\* the attribute log and its caches under formats, reads and row edits
NextAttr ==
    \/ \E sel \in GridSelections : \E attr \in Diffs : SetFormat(sel, attr)
    \/ \E pt \in ViewCells : Read("TextColorRole", pt)
    \/ \E top \in Rows : \E bottom \in top .. shape[1] - 1 :
          on_insert_rows(top, bottom)
    \/ \E top \in Rows : \E bottom \in top .. shape[1] - 1 :
          on_delete_rows(top, bottom)

SpecAttr == Init /\ [][NextAttr]_vars

\* cells, formats and frozen cells under edits, reads, freezing, refreshes
\* and a failed file open
NextFrozen ==
    \/ \E pt \in ViewCells : \E value \in Codes :
          SetCode(pt[1], pt[2], value, FALSE)
    \/ \E sel \in GridSelections : \E attr \in Diffs : SetFormat(sel, attr)
    \/ \E pt \in ViewCells : \E role \in {"DisplayRole", "TextColorRole"} :
          Read(role, pt)
    \/ \E pt \in ViewCells : \E toggled \in BOOLEAN : on_freeze_pressed(pt, toggled)
    \/ refresh_frozen_cells
    \/ \E sel \in GridSelections : refresh_selected_frozen_cells(sel)
    \/ \E file \in {"missing", "unreadable"} : \E verified \in BOOLEAN :
          filepath_open(file, verified)

SpecFrozen == Init /\ [][NextFrozen]_vars

\* the codes typed into cells whose results are looked at: a value, a name
\* of the global namespace, a division by zero, a value nested too deeply
CacheCodes == {"hi", "x", "1/0", "deep"}

\* the result cache under edits, deletes, reads, macro changes, row edits, a
\* manual refresh and a failed file open
NextCache ==
    \/ \E pt \in EditCells : \E value \in CacheCodes :
          SetCode(pt[1], pt[2], value, FALSE)
    \/ \E pt \in EditCells : SetCode(pt[1], pt[2], None, TRUE)
    \/ \E pt \in EditCells : \E role \in {"DisplayRole", "ToolTipRole"} :
          Read(role, pt)
    \/ \E value \in Macros : on_apply_macros(value)
    \/ \E top \in Rows : \E bottom \in top .. shape[1] - 1 :
          on_insert_rows(top, bottom)
    \/ \E top \in Rows : \E bottom \in top .. shape[1] - 1 :
          on_delete_rows(top, bottom)
    \/ refresh_frozen_cells
    \/ filepath_open("unreadable", FALSE)

SpecCache == Init /\ [][NextCache]_vars

\* the shapes typed into the resize dialog: smaller, equal and larger ones, a
\* shape with an empty axis, and the canceled dialog
ResizeShapes == {NoShape, <<0, 1, 1>>, <<1, 1, 1>>, <<2, 1, 1>>, <<2, 2, 1>>}

\* cells, cached results and formats under resizes of the grid
NextResize ==
    \/ \E pt \in EditCells : \E value \in Codes :
          SetCode(pt[1], pt[2], value, FALSE)
    \/ \E sel \in GridSelections : \E attr \in Diffs : SetFormat(sel, attr)
    \/ \E pt \in EditCells : Read("ToolTipRole", pt)
    \/ \E shp \in ResizeShapes : edit_resize(shp)

SpecResize == Init /\ [][NextResize]_vars

\* files opened, read to the end or canceled on the way, between edits and
\* reads
NextLoad ==
    \/ \E pt \in EditCells : \E value \in Codes :
          SetCode(pt[1], pt[2], value, FALSE)
    \/ \E pt \in EditCells : Read("ToolTipRole", pt)
    \/ \E file \in {"missing", "unreadable"} : \E verified \in BOOLEAN :
          filepath_open(file, verified)
    \/ \E lines \in Files : \E verified \in BOOLEAN :
         \E canceled \in 0 .. Len(lines) :
           filepath_open_lines(lines, verified, canceled)

SpecLoad == Init /\ [][NextLoad]_vars

\* the shape under structural edits, new files and resizes; no file is
\* written
NextShape ==
    \/ Structural
    \/ \E current \in Tables : \E pt \in ViewCells : on_table_changed(current, pt)
    \/ \E choice \in {"cancel", "discard", "save"} :
         \E save \in {"aborted", "OSError"} :
           \E shp \in DialogShapes : file_new(choice, save, shp)
    \/ \E shp \in DialogShapes : edit_resize(shp)

SpecShape == Init /\ [][NextShape]_vars

\* grid.selection while formats are set, copied and pasted and cells are
\* deleted: a cell, a block, a block with one of its cells selected once
\* more, a block beside it, a block across it
FormatSelections ==
    {Selection(<<>>, <<>>, <<>>, <<>>, <<<<1, 0>>>>),
     Selection(<<<<0, 0>>>>, <<<<1, 0>>>>, <<>>, <<>>, <<>>),
     Selection(<<<<0, 0>>>>, <<<<1, 0>>>>, <<>>, <<>>, <<<<1, 0>>>>),
     Selection(<<<<0, 1>>>>, <<<<1, 1>>>>, <<>>, <<>>, <<>>),
     Selection(<<<<0, 0>>>>, <<<<0, 1>>>>, <<>>, <<>>, <<>>)}

\* formats set, copied and pasted, the grid resized to one and to two
\* columns
NextFormat ==
    \/ \E sel \in FormatSelections : SetFormat(sel, Diff1("bgcolor", "red"))
    \/ \E sel \in FormatSelections : format_copy_format(sel)
    \/ \E pt \in Rows \X Columns : format_paste_format(pt)
    \/ \E shp \in {<<2, 1, 1>>, <<2, 2, 1>>} : edit_resize(shp)

SpecFormat == Init /\ [][NextFormat]_vars

\* cells filled, formats pasted and selections deleted in a grid of one or
\* two columns
\* the file that is opened between saves
SaveFiles == {<<ShapeLine(<<2, 1, 1>>), GridLine(<<1, 0, 0>>, "hi")>>}

\* saving, and the workflows that ask about unsaved changes
NextSave ==
    \/ \E pt \in Rows \X Columns : SetCode(pt[1], pt[2], "1", FALSE)
    \/ \E save \in Saves : file_save_triggered(save)
    \/ \E choice \in Choices : \E save \in Saves :
         \E shp \in {NoShape, <<2, 1, 1>>} : file_new(choice, save, shp)
    \/ \E choice \in Choices : \E save \in {"aborted", "OSError", "saved"} :
         \E lines \in SaveFiles : \E verified \in BOOLEAN :
           \E canceled \in 0 .. 1 :
             file_open_recent(choice, save, lines, verified, canceled)

SpecSave == Init /\ [][NextSave]_vars

\* zooming, changing the table, new grids and resizing by the user
NextZoom ==
    \/ \E pt \in Rows \X Columns : SetCode(pt[1], pt[2], "1", FALSE)
    \/ on_insert_table
    \/ \E current \in Tables : \E pt \in ViewCells : on_table_changed(current, pt)
    \/ on_zoom
    \/ \E event \in {"row resized", "column resized"} : on_section_resized(event)
    \/ \E choice \in Choices : \E shp \in {NoShape, <<2, 1, 1>>} :
          file_new(choice, "saved", shp)
    \/ \E lines \in SaveFiles : \E verified \in BOOLEAN :
          filepath_open_lines(lines, verified, 0)

SpecZoom == Init /\ [][NextZoom]_vars

\* the codes that are typed and quoted
QuoteCodes ==
    {"hi", " hi ", "'hi'", "\"hi\"", "u'hi'", "u\"hi\"", "it's", "'\"", "1", " "}

\* typing code and quoting it
NextQuote ==
    \/ \E pt \in Rows \X Columns : \E value \in QuoteCodes :
          SetCode(pt[1], pt[2], value, TRUE)
    \/ \E sel \in FormatSelections : on_quote(sel)
    \/ \E pt \in Rows \X Columns : \E text \in QuoteCodes : eventFilter(pt, text)
    \/ \E sel \in FormatSelections : delete(sel)

SpecQuote == Init /\ [][NextQuote]_vars

\* code that refers to another cell is typed and read
NextRef ==
    \/ \E pt \in Rows \X Columns : \E value \in {"1", "hi", RefCode} :
          EditCode(pt[1], pt[2], value)
    \/ \E pt \in Rows \X Columns :
         \E role \in {"DisplayRole", "ToolTipRole", "TextColorRole"} :
            Read(role, pt)
    \/ \E sel \in FormatSelections : delete(sel)

SpecRef == Init /\ [][NextRef]_vars

\* cells locked and unlocked, typed into, deleted and cut, in one or two
\* tables, and a file that cannot be opened
NextLock ==
    \/ \E pt \in Rows \X Columns : SetCode(pt[1], pt[2], "1", FALSE)
    \/ \E sel \in GridSelections : \E toggled \in BOOLEAN :
          on_lock_pressed(sel, toggled)
    \/ \E sel \in GridSelections : delete(sel)
    \/ \E sel \in GridSelections : edit_cut(sel)
    \/ shape[3] < 2 /\ on_insert_table
    \/ \E current \in Tables : \E pt \in ViewCells : on_table_changed(current, pt)
    \/ \E verified \in BOOLEAN : filepath_open("unreadable", verified)

SpecLock == Init /\ [][NextLock]_vars

NextDelete ==
    \/ \E pt \in Rows \X Columns : SetCode(pt[1], pt[2], "1", FALSE)
    \/ \E sel \in FormatSelections : delete(sel)
    \/ \E shp \in {<<2, 1, 1>>, <<2, 2, 1>>} : edit_resize(shp)

SpecDelete == Init /\ [][NextDelete]_vars

\* grid.selection while cells are merged: blocks that overlap, a block
\* apart from them, the top left cell of a block and a cell inside a block
MergeSelections ==
    {Selection(<<<<0, 0>>>>, <<<<1, 0>>>>, <<>>, <<>>, <<>>),
     Selection(<<<<1, 0>>>>, <<<<2, 1>>>>, <<>>, <<>>, <<>>),
     Selection(<<<<0, 1>>>>, <<<<1, 1>>>>, <<>>, <<>>, <<>>),
     Selection(<<>>, <<>>, <<>>, <<>>, <<<<0, 0>>>>),
     Selection(<<>>, <<>>, <<>>, <<>>, <<<<1, 0>>>>)}

\* the shapes the grid is resized to before cells are merged
MergeShapes == {<<3, 2, 1>>, <<3, 2, 2>>}

\* cells merged and unmerged in a grid of three rows and two columns
NextMerge ==
    \/ \E sel \in MergeSelections : on_merge_pressed(sel)
    \/ \E shp \in MergeShapes : cell_attributes = <<>> /\ edit_resize(shp)
    \/ \E current \in Tables : \E pt \in ViewCells : on_table_changed(current, pt)

SpecMerge == Init /\ [][NextMerge]_vars

\* the pys files that are searched
FindFiles ==
    {<<ShapeLine(<<3, 1, 1>>), GridLine(<<0, 0, 0>>, "high"),
       GridLine(<<1, 0, 0>>, "Hi"), GridLine(<<2, 0, 0>>, "hi")>>,
     <<ShapeLine(<<2, 2, 1>>), GridLine(<<0, 1, 0>>, "hi"),
       GridLine(<<1, 0, 0>>, "high")>>}

\* the strings that are searched for: a word, a regular expression, a result
FindStrings == {"hi", "h.", "2"}

\* the boxes ticked in the find dialog and the find toolbar: from start,
\* backward, whole word, match case, regular expression, search in results
FindOptions ==
    {<<FALSE, FALSE, FALSE, FALSE, FALSE, FALSE>>,
     <<TRUE, FALSE, FALSE, FALSE, FALSE, FALSE>>,
     <<FALSE, TRUE, FALSE, FALSE, FALSE, FALSE>>,
     <<FALSE, FALSE, TRUE, FALSE, FALSE, FALSE>>,
     <<FALSE, FALSE, FALSE, TRUE, FALSE, FALSE>>,
     <<FALSE, FALSE, FALSE, FALSE, TRUE, FALSE>>,
     <<FALSE, FALSE, FALSE, FALSE, FALSE, TRUE>>,
     <<FALSE, TRUE, TRUE, TRUE, FALSE, FALSE>>,
     <<TRUE, TRUE, FALSE, FALSE, FALSE, TRUE>>}

\* files opened, cells deleted, and searches from the current cell
NextFind ==
    \/ \E lines \in FindFiles : filepath_open_lines(lines, TRUE, 0)
    \/ \E sel \in GridSelections : delete(sel)
    \/ \E pt \in Rows \X Columns : \E find_string \in FindStrings :
         \E o \in FindOptions :
            edit_find_next(pt, find_string, o[1], o[2], o[3], o[4], o[5], o[6])

SpecFind == Init /\ [][NextFind]_vars

\* the file whose cells are replaced
ReplaceFiles ==
    {<<ShapeLine(<<3, 1, 1>>), GridLine(<<0, 0, 0>>, "high"),
       GridLine(<<1, 0, 0>>, "Hi"), GridLine(<<2, 0, 0>>, "hi")>>}

\* the boxes ticked in the replace dialog: from start, backward, whole
\* word, match case, regular expression, search in results
ReplaceOptions ==
    {<<TRUE, FALSE, FALSE, FALSE, FALSE, FALSE>>,
     <<FALSE, FALSE, FALSE, TRUE, FALSE, FALSE>>,
     <<FALSE, TRUE, FALSE, TRUE, FALSE, FALSE>>,
     <<FALSE, FALSE, TRUE, TRUE, FALSE, FALSE>>,
     <<FALSE, FALSE, FALSE, FALSE, TRUE, FALSE>>,
     <<FALSE, FALSE, FALSE, FALSE, FALSE, TRUE>>}

\* the strings that replace a find string
ReplaceStrings == {"1", "hi"}

\* files opened, cells deleted, and replace all from the current cell; the
\* loop of replace all runs to its end before anything else happens
NextReplace ==
    \/ ~ReplacingAll /\ \E lines \in ReplaceFiles : filepath_open_lines(lines, TRUE, 0)
    \/ ~ReplacingAll /\ \E sel \in FormatSelections : delete(sel)
    \/ \E pt \in Rows \X Columns : \E find_string \in FindStrings :
         \E replace_string \in ReplaceStrings : \E o \in ReplaceOptions :
            replace_dialog_on_replace_all(pt, find_string, replace_string,
                                          o[1], o[2], o[3], o[4], o[5], o[6])
    \/ replace_all_loop

SpecReplace == Init /\ [][NextReplace]_vars

\* cells merged and unmerged, cells painted, and searches from the current
\* cell upwards and downwards
NextPaint ==
    \/ \E sel \in MergeSelections : on_merge_pressed(sel)
    \/ \E shp \in MergeShapes : cell_attributes = <<>> /\ edit_resize(shp)
    \/ \E pt \in EditCells : paint_border_lines(pt)
    \/ \E pt \in EditCells : \E up \in BOOLEAN :
          edit_find_next(pt, "hi", FALSE, up, FALSE, FALSE, FALSE, FALSE)

SpecPaint == Init /\ [][NextPaint]_vars

----------------------------------------------------------------------------
(* Properties *)

\* a call of the grid model that took effect
Accepted(r) == r.result \in {"True", "None"}

\* the code at a key: None for an empty cell
Code(ca, key) == CodeArrayCall(ca, key)

\* C1: inserting n rows at p in table t, the result within the maximum
\* shape, is accepted; every code that was at (r, c, t) with r >= p is at
\* (r + n, c, t) afterwards; rows p .. p+n-1 of t are empty and nothing else
\* has appeared at or after p; the row count has grown by n; no result is
\* cached for a shifted cell, whose next read evaluates its code.
C1_InsertRowsShiftsCode ==
    \A t \in Tables : \A p \in 0 .. shape[1] : \A n \in 1 .. maxshape[1] :
       shape[1] + n <= maxshape[1] =>
          LET r == insertRows(CA, t, p, n)
              new == r.ca.dict_grid
          IN /\ r.result = "True"
             /\ r.ca.shape = <<shape[1] + n, shape[2], shape[3]>>
             /\ \A k \in DOMAIN dict_grid :
                   (k[3] = t /\ k[1] >= p) =>
                      LET k2 == <<k[1] + n, k[2], t>>
                          v == CodeArrayGetItem(r.ca, k2)
                      IN /\ k2 \in DOMAIN new
                         /\ new[k2] = dict_grid[k]
                         /\ k2 \notin DOMAIN r.ca.result_cache
                         /\ ~Effective(r.ca.cell_attributes, k2)["frozen"] =>
                               (v.evaluated /\ v.value = EvalCellIn(globals, dict_grid[k]))
             /\ \A k \in DOMAIN new :
                   (k[3] = t /\ k[1] >= p) =>
                      /\ k[1] >= p + n
                      /\ <<k[1] - n, k[2], t>> \in DOMAIN dict_grid
                      /\ new[k] = dict_grid[<<k[1] - n, k[2], t>>]

\* rows were inserted into the current table and a cell now stands in row 2,
\* where no cell is ever typed in
C1_Witness ==
    /\ last = Call("insertRows", "True")
    /\ \E k \in DOMAIN dict_grid : k[3] = table /\ k[1] = 2

\* a call of the grid model: the axis, the table the call is scoped to,
\* position, count, direction and outcome
StructuralCall(axis, tab, p, n, insert, r) ==
    [axis |-> axis, tab |-> tab, p |-> p, n |-> n, insert |-> insert, r |-> r]

\* P holds of every row, column and table call on a backend ca
EveryStructuralCall(ca, P(_)) ==
    /\ \A t \in 0 .. ca.shape[3] - 1 :
          /\ \A p \in 0 .. ca.shape[1] : \A n \in 1 .. maxshape[1] :
                /\ P(StructuralCall(0, t, p, n, TRUE, insertRows(ca, t, p, n)))
                /\ P(StructuralCall(0, t, p, n, FALSE, removeRows(ca, t, p, n)))
          /\ \A p \in 0 .. ca.shape[2] : \A n \in 1 .. maxshape[2] :
                /\ P(StructuralCall(1, t, p, n, TRUE, insertColumns(ca, t, p, n)))
                /\ P(StructuralCall(1, t, p, n, FALSE, removeColumns(ca, t, p, n)))
    /\ \A p \in 0 .. ca.shape[3] : \A n \in 1 .. maxshape[3] :
          /\ P(StructuralCall(2, NoTab, p, n, TRUE, insertTable(ca, p, n)))
          /\ P(StructuralCall(2, NoTab, p, n, FALSE, removeTable(ca, p, n)))

\* the key lies in the part of the grid that the call c moves
Touched(k, c) == k[c.axis + 1] >= c.p /\ (c.axis = 2 \/ k[3] = c.tab)

\* the key lies in the rows, columns or tables that the call c deletes
Gone(k, c) == ~c.insert /\ Touched(k, c) /\ k[c.axis + 1] < c.p + c.n

\* where the cell at k is after the call c
Image(k, c) ==
    IF ~Touched(k, c) THEN k
    ELSE [k EXCEPT ![c.axis + 1] = IF c.insert THEN @ + c.n ELSE @ - c.n]

\* C2: a structural call is all or nothing.  For a cell with code and a
\* cached result, whatever the attribute log: an accepted call has changed
\* the shape by the count, emptied the result cache, moved the code of the
\* cell and moved its attributes with it (read through the caches or by a
\* scan of the log); a refused call has left the whole backend as it was.
C2_StructuralCallAllOrNothing ==
    \A k \in Keys(shape) :
       LET ca0 == dataToolTip(setDataEdit(CA, k, "hi", FALSE), k).ca
       IN EveryStructuralCall(ca0, LAMBDA c :
             IF Accepted(c.r)
             THEN /\ c.r.ca.shape[c.axis + 1] =
                        ca0.shape[c.axis + 1] + (IF c.insert THEN c.n ELSE 0 - c.n)
                  /\ c.r.ca.result_cache = EmptyMap
                  /\ ~Gone(k, c) =>
                        /\ Code(c.r.ca, Image(k, c)) = "hi"
                        /\ Effective(c.r.ca.cell_attributes, Image(k, c)) =
                              Effective(ca0.cell_attributes, k)
                        /\ GetItemAttr(c.r.ca.cell_attributes, c.r.ca.attr_cache,
                                       c.r.ca.table_cache, Image(k, c)).value =
                              Effective(ca0.cell_attributes, k)
             ELSE c.r.ca = ca0)

\* rows were deleted from a table with a format on a cell that the delete
\* has moved to row 0
C2_Witness ==
    /\ last = Call("removeRows", "True")
    /\ \E i \in DOMAIN cell_attributes :
          /\ cell_attributes[i][2] = table
          /\ cell_attributes[i][1].cells = <<<<0, 0>>>>
          /\ "bgcolor" \in DOMAIN cell_attributes[i][3]

\* C3: deleting as many rows as the table has, and likewise columns, returns
\* False and leaves cell store, caches, attribute log and shape as they were.
C3_DeleteAllRejected ==
    \A t \in Tables :
       /\ \A p \in Rows :
             LET r == removeRows(CA, t, p, shape[1])
             IN r.result = "False" /\ r.ca = CA
       /\ \A p \in Columns :
             LET r == removeColumns(CA, t, p, shape[2])
             IN r.result = "False" /\ r.ca = CA

\* the delete of every row of a grid that holds code was refused
C3_Witness ==
    /\ last = Call("removeRows", "False")
    /\ DOMAIN dict_grid # {}

\* C4: an insert of rows, columns or tables that would exceed the maximum
\* shape fails (the backend's exception reaches the caller) and leaves cell
\* store, caches, attribute log and shape as they were.
C4_InsertBeyondMaximumRejected ==
    /\ \A t \in Tables : \A p \in 0 .. shape[1] : \A n \in 1 .. maxshape[1] :
          shape[1] + n > maxshape[1] =>
             LET r == insertRows(CA, t, p, n)
             IN r.result = "Raised" /\ r.ca = CA
    /\ \A t \in Tables : \A p \in 0 .. shape[2] : \A n \in 1 .. maxshape[2] :
          shape[2] + n > maxshape[2] =>
             LET r == insertColumns(CA, t, p, n)
             IN r.result = "Raised" /\ r.ca = CA
    /\ \A p \in 0 .. shape[3] : \A n \in 1 .. maxshape[3] :
          shape[3] + n > maxshape[3] =>
             LET r == insertTable(CA, p, n)
             IN r.result = "Raised" /\ r.ca = CA

\* an insert of columns into a grid that holds code was refused
C4_Witness ==
    /\ last = Call("insertColumns", "Raised")
    /\ DOMAIN dict_grid # {}

\* every axis of a shape is at least 1 and at most the maximum
ValidShape(shp) == \A i \in 1 .. 3 : 1 <= shp[i] /\ shp[i] <= maxshape[i]

\* what a caller receives when a request is refused
Refusals == {"Raised", "False", "Invalid grid shape", "Grid shape exceeds"}

\* C5: whatever structural edits, new files and resizes have been done, every
\* axis of the shape is at least 1 and at most the maximum; every shape the
\* dialog can return that violates this is refused with a reason; and a step
\* that ends in a refusal leaves the shape as it was.
C5_ShapeWithinMaximum ==
    /\ [](/\ ValidShape(shape)
          /\ \A shp \in DialogShapes \ {NoShape} :
                ~ValidShape(shp) => GridShapeError(shp) \in Refusals)
    /\ [][last'.result \in Refusals => shape' = shape]_vars

\* a new file was refused for its shape after the shape had been changed
C5_Witness ==
    /\ last.op = "file_new"
    /\ last.result = "Grid shape exceeds"
    /\ shape # InitShape

\* the backend after n rows are inserted at p in table t and n rows are then
\* deleted at p in table t
InsertThenDelete(t, p, n) == removeRows(insertRows(CA, t, p, n).ca, t, p, n).ca

\* the code of every cell in a row before p, and the shape, are as in the
\* current state
SameBefore(ca, p) ==
    /\ ca.shape = shape
    /\ \A k \in (DOMAIN dict_grid) \cup (DOMAIN ca.dict_grid) :
          k[1] < p => Code(ca, k) = Code(CA, k)

C7_RowColumnEditsScopedTableEditsGlobal ==
    EveryStructuralCall(CA, LAMBDA c :
       IF c.axis < 2
       THEN \A k \in (DOMAIN dict_grid) \cup (DOMAIN c.r.ca.dict_grid) :
               k[3] # c.tab => Code(c.r.ca, k) = Code(CA, k)
       ELSE Accepted(c.r) =>
               /\ \A k \in DOMAIN dict_grid :
                     ~Gone(k, c) =>
                        /\ Image(k, c)[1] = k[1] /\ Image(k, c)[2] = k[2]
                        /\ Image(k, c)[3] =
                              IF k[3] < c.p THEN k[3]
                              ELSE IF c.insert THEN k[3] + c.n ELSE k[3] - c.n
                        /\ Code(c.r.ca, Image(k, c)) = dict_grid[k]
               /\ DOMAIN c.r.ca.dict_grid =
                     {Image(k, c) : k \in {x \in DOMAIN dict_grid : ~Gone(x, c)}})

\* rows were inserted into the current table while another table held code
C7_Witness ==
    /\ last = Call("insertRows", "True")
    /\ \E k \in DOMAIN dict_grid : k[3] # table

\* every row (axis 0) or column (axis 1) of the selection is before p
EntirelyBefore(sel, axis, p) ==
    /\ \A pt \in PointsOf(sel) : pt[axis + 1] < p
    /\ \A x \in Range(IF axis = 0 THEN sel.rows ELSE sel.cols) : x < p

\* the point moved by d rows (axis 0) or columns (axis 1)
Moved(pt, axis, d) == [pt EXCEPT ![axis + 1] = @ + d]

\* the point lies in a block of the selection that has rows (columns) on
\* both sides of p
InStraddlingBlock(sel, axis, p, pt) ==
    \E i \in DOMAIN sel.block_tl :
       /\ sel.block_tl[i][axis + 1] < p /\ p <= sel.block_br[i][axis + 1]
       /\ sel.block_tl[i][2 - axis] <= pt[2 - axis]
       /\ pt[2 - axis] <= sel.block_br[i][2 - axis]

\* the <<row, column>> points of the largest grid
Points == (0 .. maxshape[1] - 1) \X (0 .. maxshape[2] - 1)

\* C8: an accepted insert or delete of n rows or columns at p in table t
\* keeps the entries of the log in number and order, with their tables and
\* diffs; an entry of another table, or one whose selection lies entirely
\* before p, is unchanged; in the others, what a selection holds before p it
\* still holds, what it held at or after p it holds n further on after an
\* insert (n earlier after a delete, the deleted part cut out), and a block
\* on both sides of p covers the inserted part as well; so the effective
\* attributes of every cell that is moved are those it had before.
C8_SelectionsFollowStructuralEdits ==
    EveryStructuralCall(CA, LAMBDA c :
       (c.axis < 2 /\ Accepted(c.r)) =>
          LET new == c.r.ca.cell_attributes
          IN /\ Len(new) = Len(cell_attributes)
             /\ \A i \in DOMAIN cell_attributes :
                   LET e == cell_attributes[i]
                       e2 == new[i]
                   IN /\ e2[2] = e[2] /\ e2[3] = e[3]
                      /\ (e[2] # c.tab \/ EntirelyBefore(e[1], c.axis, c.p)) => e2 = e
                      /\ e[2] = c.tab =>
                            \A pt \in Points :
                               Contains(e2[1], pt[1], pt[2]) =
                                  IF pt[c.axis + 1] < c.p
                                  THEN Contains(e[1], pt[1], pt[2])
                                  ELSE IF ~c.insert
                                  THEN LET q == Moved(pt, c.axis, c.n)
                                       IN Contains(e[1], q[1], q[2])
                                  ELSE IF pt[c.axis + 1] >= c.p + c.n
                                  THEN LET q == Moved(pt, c.axis, 0 - c.n)
                                       IN Contains(e[1], q[1], q[2])
                                  ELSE InStraddlingBlock(e[1], c.axis, c.p, pt)
             /\ \A k \in Keys(shape) :
                   (k[3] = c.tab /\ ~Gone(k, c)) =>
                      Effective(new, Image(k, c)) = Effective(cell_attributes, k))

\* rows were inserted in the middle of a formatted block of two rows, which
\* now spans three
C8_Witness ==
    /\ last = Call("insertRows", "True")
    /\ \E i \in DOMAIN cell_attributes :
          /\ cell_attributes[i][1].block_tl = <<<<0, 0>>>>
          /\ cell_attributes[i][1].block_br = <<<<2, 0>>>>

\* C9: when two entries are appended for the current table, at every
\* coordinate that both selections contain the attributes queried afterwards
\* have, for a key of the later diff, the later value; for a key of the
\* earlier diff only, the earlier value; for a key of neither, the value
\* they had before, which is the default when the log was empty.
C9_LaterEntryWins ==
    \A sel1 \in GridSelections : \A sel2 \in GridSelections :
       \A d1 \in Diffs : \A d2 \in Diffs :
          LET ca2 == setDataAttr(setDataAttr(CA, <<sel1, table, d1>>),
                                 <<sel2, table, d2>>)
          IN \A k \in Keys(maxshape) :
                (k[3] = table /\ Contains(sel1, k[1], k[2])
                              /\ Contains(sel2, k[1], k[2])) =>
                   LET eff == GetItemAttr(ca2.cell_attributes, ca2.attr_cache,
                                          ca2.table_cache, k).value
                       was == Effective(cell_attributes, k)
                   IN /\ \A a \in AttrNames :
                            eff[a] = IF a \in DOMAIN d2 THEN d2[a]
                                     ELSE IF a \in DOMAIN d1 THEN d1[a]
                                     ELSE was[a]
                      /\ cell_attributes = <<>> => was = DefaultCellAttributes

\* two formats with different background colours were applied to
\* overlapping selections
C9_Witness ==
    /\ last = Call("setDataAttr", "True")
    /\ Len(cell_attributes) = 2
    /\ "bgcolor" \in DOMAIN cell_attributes[1][3]
    /\ "bgcolor" \in DOMAIN cell_attributes[2][3]
    /\ cell_attributes[1][3]["bgcolor"] # cell_attributes[2][3]["bgcolor"]
    /\ cell_attributes[1][2] = cell_attributes[2][2]
    /\ \E pt \in Points : /\ Contains(cell_attributes[1][1], pt[1], pt[2])
                          /\ Contains(cell_attributes[2][1], pt[1], pt[2])

\* C10: the attributes that a point query returns for a coordinate, through
\* the point cache and the table cache, are those of a scan of the log as it
\* is now.
C10_QueriesEqualFreshScan ==
    \A k \in Keys(shape) :
       GetItemAttr(cell_attributes, attr_cache, table_cache, k).value =
          Effective(cell_attributes, k)

\* the point query of the attributes says that the cell is frozen
ReadsFrozen(ca, key) ==
    GetItemAttr(ca.cell_attributes, ca.attr_cache, ca.table_cache, key).value["frozen"]

\* every way of clearing the whole result cache does so: a reset, a change
\* of the macros, an accepted structural call
WholeCacheCleared ==
    /\ reset(CA).result_cache = EmptyMap
    /\ \A m \in Macros : ExecuteMacros(CA, m).result_cache = EmptyMap
    /\ EveryStructuralCall(CA, LAMBDA c :
          Accepted(c.r) => c.r.ca.result_cache = EmptyMap)

\* the result read at key right after its code is set to value is the
\* evaluator's result for value, obtained by an evaluation
FreshAfterSet(key, value) ==
    LET ca1 == setDataEdit(CA, key, value, FALSE)
        v == CodeArrayGetItem(ca1, key)
    IN /\ key \notin DOMAIN ca1.result_cache
       /\ v.evaluated
       /\ v.value = EvalCellIn(globals, value)
       /\ v.ca.result_cache[key] = EvalCellIn(globals, value)

\* C11 as stated: after the code at a coordinate is changed, the next result
\* read there returns the evaluator's result for the new code, never a result
\* kept for the old code; structural edits, reset and macro changes clear
\* the whole result cache.
C11_ReadAfterCodeChangeIsFresh ==
    /\ \A key \in Keys(shape) : \A value \in Codes \cup {"hello"} :
          FreshAfterSet(key, value)
    /\ WholeCacheCleared

\* C11 amended: the same for every coordinate whose attributes do not read
\* as frozen; a cell that reads as frozen keeps returning its pinned result.
C11_ReadAfterCodeChangeIsFreshUnlessFrozen ==
    /\ \A key \in Keys(shape) : \A value \in Codes \cup {"hello"} :
          ~ReadsFrozen(CA, key) => FreshAfterSet(key, value)
    /\ WholeCacheCleared

\* the code of a cell that held "1" with its result cached was set to "hi",
\* and the read that followed returned 2; the cell is not frozen
C11_Witness ==
    /\ last = Call("DisplayRole", "2")
    /\ \E key \in DOMAIN result_cache :
          /\ result_cache[key] = "2"
          /\ code(CA, key) = "hi"
          /\ ~ReadsFrozen(CA, key)

\* the calls that invalidate cached results: a code change, a structural
\* shift, a manual refresh, a change of the macros, a reset
Invalidations ==
    {"setData", "setData raw", "insertRows", "removeRows", "insertColumns", "removeColumns",
     "insertTable", "removeTable", "refresh_frozen_cells",
     "refresh_selected_frozen_cells", "on_apply_macros", "filepath_open"}

\* a read of key through the grid model returns the cached result without
\* an evaluation and leaves the cache as it is; without a cached result it
\* evaluates the code, stores the result, and the read that follows returns
\* the stored result without an evaluation
ReadUsesCache(key) ==
    LET r == dataToolTip(CA, key)
        r2 == dataToolTip(r.ca, key)
    IN /\ key \in DOMAIN result_cache =>
             /\ ~r.evaluated
             /\ r.result = safe_str(result_cache[key])
             /\ r.ca.result_cache = result_cache
       /\ (key \notin DOMAIN result_cache /\ key \in DOMAIN dict_grid) =>
             /\ r.evaluated
             /\ r.ca.result_cache =
                   Put(result_cache, key, EvalCellIn(globals, dict_grid[key]))
             /\ r.result = safe_str(EvalCellIn(globals, dict_grid[key]))
             /\ ~r2.evaluated /\ r2.result = r.result /\ r2.ca = r.ca
       /\ (key \notin DOMAIN result_cache /\ key \notin DOMAIN dict_grid) =>
             ~r.evaluated /\ r.result = "" /\ r.ca.result_cache = result_cache

\* C12: a result read of a cell that is not frozen returns the cached
\* result when there is one and otherwise evaluates once and stores the
\* result; and a cached result, a value or a captured error, stays as it is
\* from step to step unless the step is an invalidation (never in a read).
C12_CachedResultKeptUntilInvalidated ==
    /\ [](\A key \in Keys(shape) : ~ReadsFrozen(CA, key) => ReadUsesCache(key))
    /\ [][\A key \in DOMAIN result_cache :
             (key \notin DOMAIN result_cache' \/ result_cache'[key] # result_cache[key])
                => last'.op \in Invalidations]_vars

\* a read has returned the message of a captured error, and the error is
\* the cached result of the cell
C12_Witness ==
    /\ last = Call("ToolTipRole", "division by zero")
    /\ \E key \in DOMAIN result_cache : result_cache[key] = "ZeroDivisionError"

FrozenCacheWriters ==
    {"on_freeze_pressed", "refresh_frozen_cells", "refresh_selected_frozen_cells"}

\* C14: a read of a cell that reads as frozen evaluates nothing, returns what
\* the frozen cache holds for the cell and leaves both caches as they are,
\* whatever the code of the cell is now; and from step to step an entry of
\* the frozen cache appears, changes or disappears only through the freeze
\* button or a refresh request, never in a read or a code change.
C14_FrozenReadNeverEvaluates ==
    /\ [](\A key \in Keys(shape) :
            ReadsFrozen(CA, key) =>
               LET r == dataDisplay(CA, key)
                   pinned == IF key \in DOMAIN frozen_cache
                             THEN frozen_cache[key] ELSE None
               IN /\ ~r.evaluated
                  /\ r.result = IF pinned = None THEN "" ELSE safe_str(pinned)
                  /\ r.ca.frozen_cache = frozen_cache
                  /\ r.ca.result_cache = result_cache)
    /\ [][frozen_cache' # frozen_cache => last'.op \in FrozenCacheWriters]_vars

\* the read of a frozen cell has returned the pinned 1 although the code of
\* the cell has been changed to "hi" since
C14_Witness ==
    /\ last = Call("DisplayRole", "1")
    /\ \E key \in DOMAIN frozen_cache :
          /\ ReadsFrozen(CA, key)
          /\ frozen_cache[key] = "1"
          /\ code(CA, key) = "hi"

\* evaluating the code in the global namespace env raises an exception
Raises(env, value) == value = "1/0" \/ (value = "x" /\ "x" \notin env)

\* C15: whatever code a cell is given, the reads of its result return a text
\* to their caller and no exception escapes them; the result stored for the
\* cell is a captured exception exactly when evaluating the code raises, and
\* then the read returns the message of the exception; the chart dialog
\* reports a captured exception by its message and draws a figure only for
\* a figure.
C15_EvaluationErrorsAreCaptured ==
    /\ \A key \in Keys(shape) : \A value \in CacheCodes :
          LET ca1 == setDataEdit(CA, key, value, FALSE)
              r == dataToolTip(ca1, key)
              d == dataDisplay(ca1, key)
          IN ~ReadsFrozen(CA, key) =>
                /\ r.result # "Raised" /\ d.result # "Raised"
                /\ d.result = r.result
                /\ key \in DOMAIN r.ca.result_cache
                /\ (r.ca.result_cache[key] \in Errors) = Raises(globals, value)
                /\ Raises(globals, value) =>
                      r.result = Str(r.ca.result_cache[key])
    /\ \A value \in CacheCodes \cup {"fig"} :
          /\ Raises(globals, value) =>
                apply(CA, value) =
                   [pane |-> "message", text |-> Str(EvalCellIn(globals, value))]
          /\ (apply(CA, value).pane = "canvas") = (value = "fig")

\* a read has returned the message of the NameError that evaluating "x"
\* raised, and the NameError is the cached result of the cell
C15_Witness ==
    /\ last = Call("DisplayRole", "name 'x' is not defined")
    /\ \E key \in DOMAIN result_cache :
          result_cache[key] = "NameError" /\ code(CA, key) = "x"

\* C16: after the code of a coordinate is set to s, by the editor or raw,
\* the code read there is s and the code of every other coordinate is what
\* it was; after the coordinate is deleted, the code read there is None and
\* the coordinate is no key of the store, whatever it held before.
C16_CodeRoundTrip ==
    \A key \in Keys(shape) :
       /\ \A value \in CacheCodes : \A raw \in BOOLEAN :
             LET ca1 == setDataEdit(CA, key, value, raw)
             IN /\ code(ca1, key) = value
                /\ \A k \in Keys(maxshape) \ {key} : code(ca1, k) = code(CA, k)
                /\ LET ca2 == setDataEdit(ca1, key, None, TRUE)
                   IN /\ code(ca2, key) = None
                      /\ key \notin DOMAIN ca2.dict_grid
                      /\ \A k \in Keys(maxshape) \ {key} :
                            code(ca2, k) = code(CA, k)
       /\ LET ca3 == setDataEdit(CA, key, None, TRUE)
          IN code(ca3, key) = None /\ key \notin DOMAIN ca3.dict_grid

\* the code of a cell was set to "deep" and is read back as that; no result
\* is cached for the cell
C16_Witness ==
    /\ last = Call("setData", "True")
    /\ \E key \in DOMAIN dict_grid :
          code(CA, key) = "deep" /\ key \notin DOMAIN result_cache

C18_ResetClearsEverything ==
    LET ca == reset(CA)
    IN /\ ca.dict_grid = EmptyMap
       /\ ca.cell_attributes = <<>>
       /\ \A key \in Keys(shape) :
             Effective(ca.cell_attributes, key) = DefaultCellAttributes
       /\ ca.result_cache = EmptyMap
       /\ ca.frozen_cache = EmptyMap
       /\ ca.globals = {}

\* C19: after the shape of the grid model is set, the shape is the one
\* given, the result cache and the attribute caches are empty, every code,
\* every pinned result and every selection of the attribute log lies inside
\* the new shape, and the code at every coordinate inside the new shape is
\* what it was.
C19_SetShapeClearsAndTrims ==
    \A value \in Keys(<<maxshape[1] + 1, maxshape[2] + 1, maxshape[3] + 1>>) :
       ValidShape(value) =>
          LET ca == setShape(CA, value)
          IN /\ ca.shape = value
             /\ ca.result_cache = EmptyMap
             /\ ca.attr_cache = EmptyMap /\ ca.table_cache = EmptyMap
             /\ DOMAIN ca.dict_grid \subseteq Keys(value)
             /\ DOMAIN ca.frozen_cache \subseteq Keys(value)
             /\ \A i \in DOMAIN ca.cell_attributes :
                   /\ SelInShape(ca.cell_attributes[i][1], value)
                   /\ ca.cell_attributes[i][2] < value[3]
             /\ \A key \in Keys(value) : code(ca, key) = code(CA, key)

\* the grid was resized to one row while a block of two rows was formatted:
\* the block of the log entry now ends in row 0
C19_Witness ==
    /\ last = Call("edit_resize", "None")
    /\ shape = <<1, 1, 1>>
    /\ \E i \in DOMAIN cell_attributes :
          /\ cell_attributes[i][1].block_tl = <<<<0, 0>>>>
          /\ cell_attributes[i][1].block_br = <<<<0, 0>>>>

\* C20: when the opening of a file is canceled after some of its lines have
\* been read, the cells of the lines read before the cancel are in the store
\* and the cells of the lines after it are not.
C20_CancelKeepsCompletedUnits ==
    \A lines \in Files : \A canceled \in 1 .. Len(lines) :
       LET r == ReadLines(reset(CA), lines, 1, canceled)
       IN r.outcome = "canceled" =>
             \A i \in DOMAIN lines :
                lines[i].kind = "grid" =>
                   code(r.ca, lines[i].key) =
                      IF i <= canceled THEN lines[i].value ELSE None

\* the selections at hand: the ones the grid makes, the ones of the log and
\* the ones on the clipboard
SelectionsAtHand ==
    FormatSelections \cup {cell_attributes[i][1] : i \in DOMAIN cell_attributes}
                     \cup {clipboard[i][1] : i \in DOMAIN clipboard}

\* the rows and columns that are looked at, some of them outside every shape
Coords == -1 .. 2

\* the deltas selections are shifted by
Deltas == {-1, 2}

\* C21: for every selection S, coordinate C and delta (dy, dx), the shifted
\* selection contains (C.row + dy, C.col + dx) exactly when S contains C,
\* and so do the selections that a paste at the current cell has logged
C21_ShiftMovesMembership ==
    /\ \A S \in SelectionsAtHand : \A dy \in Deltas, dx \in Deltas :
          LET T == shifted(S, dy, dx)
          IN \A r \in Coords, c \in Coords :
                Contains(T, r + dy, c + dx) <=> Contains(S, r, c)
    /\ last.op = "format_paste_format" =>
          \A i \in DOMAIN clipboard :
             LET T == cell_attributes[Len(cell_attributes) - Len(clipboard) + i][1]
             IN \A r \in Coords, c \in Coords :
                   Contains(T, r + last.key[1], c + last.key[2])
                      <=> Contains(clipboard[i][1], r, c)

\* a block with a cell was copied from the second row and pasted one row
\* down and one column to the right
C21_Witness ==
    /\ last.op = "format_paste_format"
    /\ \E i \in DOMAIN clipboard :
          /\ clipboard[i][1].cells # <<>>
          /\ clipboard[i][1].block_tl # <<>>
          /\ \E j \in DOMAIN cell_attributes :
                cell_attributes[j][1] = shifted(clipboard[i][1], 1, 1)
\* two selections share a cell
Meet(A, B) ==
    \E r \in Coords, c \in Coords : Contains(A, r, c) /\ Contains(B, r, c)

\* C22: the intersection of two selections contains a coordinate exactly
\* when both contain it; selections that share no cell, such as blocks that
\* do not overlap, intersect to the empty selection; a single cell
\* intersected with itself is that same single cell; a copy of formats
\* takes what the grid selection shares with each entry and skips the
\* entries it shares nothing with
C22_IntersectionIsMeet ==
    /\ \A A \in SelectionsAtHand, B \in SelectionsAtHand :
          LET I == intersect(A, B)
          IN /\ \A r \in Coords, c \in Coords :
                   Contains(I, r, c) <=> (Contains(A, r, c) /\ Contains(B, r, c))
             /\ ~Meet(A, B) => IsEmpty(I)
             /\ (A.block_tl = <<>> /\ Len(A.cells) = 1) => intersect(A, A) = A
    /\ last.op = "format_copy_format" =>
          LET tl == get_grid_bbox(last.sel, shape)[1]
              entries == ForTable(cell_attributes, table)
              met == {i \in DOMAIN entries : Meet(last.sel, entries[i][1])}
          IN /\ Len(clipboard) = Cardinality(met)
             /\ \A i \in DOMAIN clipboard :
                   /\ ~IsEmpty(clipboard[i][1])
                   /\ \E j \in met : \A r \in Coords, c \in Coords :
                         Contains(clipboard[i][1], r - tl[1], c - tl[2])
                            <=> (/\ Contains(last.sel, r, c)
                                 /\ Contains(entries[j][1], r, c))

\* a copy with a block selected while the log holds a block beside it, which
\* is skipped, and a block across it, of which the shared cell is copied
C22_Witness ==
    /\ last.op = "format_copy_format"
    /\ Len(cell_attributes) = 2
    /\ Len(clipboard) = 1
    /\ last.sel.block_tl # <<>>
    /\ \E i \in DOMAIN cell_attributes :
          /\ cell_attributes[i][1].block_tl # <<>>
          /\ ~Meet(last.sel, cell_attributes[i][1])
\* the number of places of a sequence that hold a value
Count(seq, x) == Cardinality({i \in DOMAIN seq : seq[i] = x})

\* the empty selection
NoSelection == Selection(<<>>, <<>>, <<>>, <<>>, <<>>)

\* C23: the cells iterated for a selection and a shape are exactly the
\* coordinates that the selection contains and that lie inside the shape,
\* each of them once even when blocks and cells overlap, none for the empty
\* selection; a delete takes the code from exactly these cells
C23_CellsIteratedOnce ==
    /\ \A S \in SelectionsAtHand \cup {NoSelection} :
          LET cells == cell_generator(S, shape)
          IN /\ \A r \in Coords, c \in Coords :
                   Count(cells, <<r, c>>) =
                      IF Contains(S, r, c) /\ <<r, c, 0>> \in Keys(shape)
                      THEN 1 ELSE 0
             /\ IsEmpty(S) => cells = <<>>
    /\ last.op = "delete" =>
          /\ \A r \in Rows, c \in Columns :
                Count(last.cells, <<r, c>>) =
                   IF Contains(last.sel, r, c) THEN 1 ELSE 0
          /\ \A i \in DOMAIN last.cells :
                <<last.cells[i][1], last.cells[i][2], table>> \notin DOMAIN dict_grid

\* a block of two cells and one of its cells were selected and deleted: two
\* cells were iterated and the grid holds no code
C23_Witness ==
    /\ last.op = "delete"
    /\ last.sel.block_tl # <<>>
    /\ \E i \in DOMAIN last.sel.cells :
          Contains([last.sel EXCEPT !.cells = <<>>],
                   last.sel.cells[i][1], last.sel.cells[i][2])
    /\ dict_grid = EmptyMap
    /\ changed_since_save
    /\ Len(last.cells) = 2
\* the merge areas in effect after the merges and unmerges logged for a
\* table, by the cell they were set at: a merge sets the area of its cell, an
\* unmerge takes the area from its cell
RECURSIVE Replay(_, _, _, _)
Replay(log, tab, i, acc) ==
    IF i > Len(log) THEN acc
    ELSE LET e == log[i]
             at == Range(e[1].cells)
         IN Replay(log, tab, i + 1,
               IF e[2] # tab \/ "merge_area" \notin DOMAIN e[3] THEN acc
               ELSE IF e[3]["merge_area"] = NoArea
               THEN [x \in (DOMAIN acc) \ at |-> acc[x]]
               ELSE [x \in (DOMAIN acc) \cup at |->
                       IF x \in at THEN e[3]["merge_area"] ELSE acc[x]])

\* C24: after any sequence of merges and unmerges get_merging_cell returns
\* the top left cell of a merge area in effect that holds the coordinate,
\* and none exactly when no merge area in effect holds it; after a merge every
\* cell of the merged block has a merging cell, after an unmerge the cell that
\* was unmerged is no merging cell any more
C24_MergingCellIsAnchor ==
    /\ \A key \in Keys(shape) :
          LET m == get_merging_cell(cell_attributes, key)
              areas == Replay(cell_attributes, key[3], 1, EmptyMap)
              holding == {a \in DOMAIN areas :
                            AreaContains(areas[a], key[1], key[2])}
          IN /\ m = NoKey <=> holding = {}
             /\ m # NoKey =>
                   /\ m[3] = key[3]
                   /\ <<m[1], m[2]>> \in holding
                   /\ areas[<<m[1], m[2]>>][1] = m[1]
                   /\ areas[<<m[1], m[2]>>][2] = m[2]
    /\ last.op = "on_merge_pressed" /\ last.result = "merged" =>
          \A pt \in Range(cell_generator(last.sel, shape)) :
             get_merging_cell(cell_attributes, <<pt[1], pt[2], table>>) # NoKey
    /\ last.op = "on_merge_pressed" /\ last.result = "unmerged" =>
          LET tl == get_grid_bbox(last.sel, shape)[1]
          IN \A key \in Keys(shape) :
                get_merging_cell(cell_attributes, key) # <<tl[1], tl[2], table>>

\* two blocks were merged and the first of them was unmerged: its cells have
\* no merging cell, the cells of the second have
C24_Witness ==
    /\ last.op = "on_merge_pressed" /\ last.result = "unmerged"
    /\ Len(cell_attributes) = 3
    /\ get_merging_cell(cell_attributes, <<0, 0, table>>) = NoKey
    /\ get_merging_cell(cell_attributes, <<1, 0, table>>) = NoKey
    /\ get_merging_cell(cell_attributes, <<1, 1, table>>) = <<0, 1, table>>
\* the text of a cell that a search looks at: its code, or its result as a
\* string
TextOf(key, results) ==
    IF results THEN Str(CodeArrayGetItem(CA, key).value) ELSE Code(CA, key)

\* the scan reaches key a before key b: first the keys from the start key on
\* in the direction of the scan, then the keys on the other side
Ahead(a, b, start, up) ==
    LET far(k) == IF up THEN KeyLess(start, k) ELSE KeyLess(k, start)
    IN \/ ~far(a) /\ far(b)
       \/ far(a) = far(b) /\ (IF up THEN KeyLess(b, a) ELSE KeyLess(a, b))

\* C25: a search returns the first occupied coordinate, scanning from the
\* start key in the direction given and wrapping around, whose code (or
\* whose result as a string) matches under the options, and none exactly
\* when no occupied cell matches
C25_FindReturnsFirstMatch ==
    last.op = "edit_find_next" =>
       LET start == IF last.from_start THEN <<0, 0, table>>
                    ELSE <<last.pt[1] + (IF last.up THEN -1 ELSE 1), last.pt[2],
                           table>>
           matching == {k \in DOMAIN dict_grid :
                          string_match(TextOf(k, last.results), last.find_string,
                                       last.word, last.case, last.regexp)}
       IN /\ last.match = NoKey <=> matching = {}
          /\ last.match # NoKey =>
                /\ last.match \in matching
                /\ \A k \in matching \ {last.match} :
                      Ahead(last.match, k, start, last.up)

\* a search for the whole word hi from the last row downwards: it wraps
\* around, passes high and finds Hi
C25_Witness ==
    /\ last.op = "edit_find_next"
    /\ last.pt = <<2, 0>> /\ ~last.up /\ ~last.from_start
    /\ last.word /\ ~last.case /\ ~last.regexp /\ ~last.results
    /\ last.find_string = "hi"
    /\ Cardinality(DOMAIN dict_grid) = 3
    /\ Code(CA, <<0, 0, 0>>) = "high"
    /\ last.match = <<1, 0, 0>>
\* C26: every coordinate that the grid hands to a query of the effective
\* attributes or to get_merging_cell lies inside the shape, the keys of the
\* neighbours of a cell in the first or last row or column included, and so
\* does the key a search starts at
C26_QueriedKeysInsideShape ==
    /\ last.op = "_paint_border_lines" =>
          /\ last.merging \subseteq Keys(shape)
          /\ last.attributes \subseteq Keys(shape)
    /\ last.op = "edit_find_next" => last.start \in Keys(shape)
----------------------------------------------------------------------------
\* the workflows wrapped by handle_changed_since_save
WrappedWorkflows == {"file_new", "file_open_recent"}

\* C27: a wrapped workflow, with unsaved changes, is not executed on Cancel
\* and nothing changes; on Save it is executed with the file saved before;
\* on Discard it is executed; without unsaved changes it is executed
\* directly; after it was executed changed_since_save is false
C27_WrappedWorkflowAfterDialog ==
    [][last'.op \in WrappedWorkflows =>
         /\ (changed_since_save /\ last'.choice = "cancel") =>
               /\ last'.result = "not run"
               /\ UNCHANGED <<caVars, guiVars, deskVars>>
         /\ (changed_since_save /\ last'.choice = "save"
                                /\ last'.result # "not run") =>
               last'.save = "saved"
         /\ (changed_since_save /\ last'.choice = "discard") =>
               last'.result # "not run"
         /\ ~changed_since_save => last'.result # "not run"
         /\ last'.result # "not run" => ~changed_since_save']_vars

C30_FailedSaveAbortsWorkflow ==
    [][(/\ last'.op \in WrappedWorkflows
        /\ changed_since_save
        /\ last'.choice = "save"
        /\ last'.save \in Saves \ {"saved"}) =>
          /\ last'.result = "not run"
          /\ UNCHANGED <<caVars, changed_since_save>>]_vars
----------------------------------------------------------------------------
\* the keys that the last refresh of frozen cells went through
Refreshed(before) ==
    IF last'.op = "refresh_frozen_cells" THEN DOMAIN before
    ELSE {k \in Keys(shape) :
            k[3] = table /\ Contains(last'.sel, k[1], k[2])}

\* C29: refreshing a cell whose effective frozen attribute is true
\* evaluates its current code and stores the result in the frozen cache,
\* whatever the result cache holds; for a cell that is not frozen the
\* frozen cache is left as it was
C29_RefreshOnlyWhereFrozen ==
    [][last'.op \in {"refresh_frozen_cells", "refresh_selected_frozen_cells"} =>
         \A key \in Keys(shape) :
            IF Effective(cell_attributes, key)["frozen"]
            THEN key \in Refreshed(frozen_cache) =>
                    /\ key \in DOMAIN frozen_cache'
                    /\ frozen_cache'[key] =
                          EvalCellIn(globals, CodeArrayCall(CA, key))
            ELSE /\ key \in DOMAIN frozen_cache' <=> key \in DOMAIN frozen_cache
                 /\ key \in DOMAIN frozen_cache =>
                       frozen_cache'[key] = frozen_cache[key]]_vars
----------------------------------------------------------------------------
\* a quoted literal in one of the forms '...', "...", u'...', u"..."
IsQuotedLiteral(chars) ==
    \/ /\ Len(chars) >= 2
       /\ chars[1] \in {"'", "\""}
       /\ chars[Len(chars)] = chars[1]
    \/ /\ Len(chars) >= 3
       /\ chars[1] = "u"
       /\ chars[2] \in {"'", "\""}
       /\ chars[Len(chars)] = chars[2]

\* C31: quote returns None unchanged, stripped code that is a quoted
\* literal unchanged and any other code that is not empty as its repr;
\* quoting what was quoted changes nothing
C31_QuoteQuotesOnce ==
    last.op \in {"on_quote", "eventFilter"} =>
       \A i \in DOMAIN last.code :
          LET given == last.code[i]
              quoted == last.quoted[i]
          IN /\ given = None => quoted = None
             /\ given # None =>
                   LET chars == strip(Chars(given))
                   IN /\ IsQuotedLiteral(chars) => quoted = Text(chars)
                      /\ (chars # <<>> /\ ~IsQuotedLiteral(chars)) =>
                            quoted = Text(repr(chars))
             /\ quote(quoted) = quoted
----------------------------------------------------------------------------
----------------------------------------------------------------------------
\* C33: replace all terminates, its loop of replace steps reaches a state
\* without a further match: the loop is never in a state in which the next
\* turn finds a match and leaves the grid, the current cell and the boxes
\* of the dialog as they are, which every later turn would do again
C33_ReplaceAllTerminates ==
    ReplacingAll =>
       LET r == replace_dialog_on_replace(CA, table, last.current,
                                          last.find_string, last.replace_string,
                                          last.from_start, last.up, last.word,
                                          last.case, last.regexp, last.results,
                                          -1)
       IN ~(/\ r.returned = "True"
            /\ r.ca = CA
            /\ r.current = last.current
            /\ r.from_start = last.from_start)
----------------------------------------------------------------------------
----------------------------------------------------------------------------
\* the last step completed a save, a load or a new grid
CompletedSaveLoadOrNew ==
    \/ last.op = "file_save" /\ last.save = "saved"
    \/ last.op = "file_new" /\ last.result = "None"
    \/ last.op = "file_open_recent" /\ last.result # "not run"

\* C35: changed_since_save is false only when the grid was not modified
\* since the last completed save, load or new grid: the flag is cleared
\* only by a step that completes one of these, also when a wrapped
\* workflow returns early, and a step that changes the code of the grid
\* without completing one of these sets it
C35_UnsavedChangesAreFlagged ==
    [][/\ (changed_since_save /\ ~changed_since_save') =>
             CompletedSaveLoadOrNew'
       /\ (dict_grid' # dict_grid /\ ~CompletedSaveLoadOrNew') =>
             changed_since_save']_vars
----------------------------------------------------------------------------
\* the statements of the last handler that went through a block of
\* undo_resizing_row or undo_resizing_column
ResizingRun ==
    IF \/ last.op \in {"on_zoom", "on_table_changed"}
       \/ last.op = "file_new" /\ last.result = "None"
       \/ last.op = "filepath_open" /\ last.result \in {"read", "canceled"}
       \/ last.op = "file_open_recent" /\ last.result \in {"read", "canceled"}
    THEN last.resizing ELSE <<>>

\* C36: a resize event inside a block of undo_resizing_row or
\* undo_resizing_column pushes no command, also when the block is entered
\* again inside; the flag is true as long as the outermost block is open
\* and false once it has been left
C36_ResizingFlagHoldsForOutermostBlock ==
    /\ \A i \in DOMAIN ResizingRun :
          LET p == ResizingRun[i]
          IN /\ p.rows_open > 0 => p.row
             /\ p.columns_open > 0 => p.column
             /\ (p.stmt = "row resized" /\ p.rows_open > 0) => ~p.pushed
             /\ (p.stmt = "column resized" /\ p.columns_open > 0) => ~p.pushed
    /\ ~undo_resizing.row
    /\ ~undo_resizing.column
----------------------------------------------------------------------------
\* C37: delete and cut leave the code of a cell whose locked attribute is
\* in effect, take the code of every other cell of the selection in the
\* current table, and leave the code of every cell outside the selection
\* and of every cell of another table
C37_DeleteSparesLockedCellsOnly ==
    [][last'.op \in {"delete", "edit_cut"} =>
          \A key \in Keys(shape) :
             code(CA', key) =
                IF /\ key[3] = table
                   /\ Contains(last'.sel, key[1], key[2])
                   /\ ~Effective(cell_attributes, key)["locked"]
                THEN None
                ELSE code(CA, key)]_vars
----------------------------------------------------------------------------
\* C38: on_freeze_pressed pushes FreezeCell only for a cell whose frozen
\* attribute is false and ThawCell only for a cell whose frozen attribute
\* is true; when the state asked for is the state of the cell no command
\* is pushed and the attribute log stays as it is
C38_FreezeOnlyUnfrozenThawOnlyFrozen ==
    [][last'.op = "on_freeze_pressed" =>
          LET frozen == Effective(cell_attributes, last'.key)["frozen"]
          IN /\ last'.result = "frozen" => ~frozen
             /\ last'.result = "thawed" => frozen
             /\ last'.toggled = frozen =>
                   /\ last'.result = "None"
                   /\ cell_attributes' = cell_attributes
                   /\ frozen_cache' = frozen_cache]_vars
----------------------------------------------------------------------------
\* C39: after update_cell_spans a cell of the current table spans the
\* rectangle up to (bottom, right) exactly when its merge_area in effect
\* is (top, left, bottom, right) with the cell as (top, left); a cell
\* whose merge_area in effect is none has no span
C39_SpansAreMergeAreas ==
    (\/ last.op = "on_table_changed"
     \/ last.op = "on_merge_pressed" /\ last.result # "None") =>
       \A r \in 0 .. shape[1] - 1, c \in 0 .. shape[2] - 1 :
          LET area == Effective(cell_attributes, <<r, c, table>>)["merge_area"]
          IN IF area # NoArea /\ area[1] = r /\ area[2] = c
             THEN /\ <<r, c>> \in DOMAIN spans
                  /\ spans[<<r, c>>] = <<area[3] - r + 1, area[4] - c + 1>>
             ELSE <<r, c>> \notin DOMAIN spans
====
